---- MODULE Spec2Model ----
(***************************************************************************)
(* A model of the tio selector core: the epoll selector, the registry and  *)
(* poll built on it, the event batch, and the eventfd waker.  The library  *)
(* keeps no registration table of its own: every registration lives in the *)
(* kernel's epoll instance, so the model carries that instance (interest   *)
(* list and ready list) and the files the descriptors refer to (one pipe,  *)
(* one eventfd) as state, and every library call is translated together    *)
(* with the system call it makes.                                          *)
(***************************************************************************)
EXTENDS Integers, Sequences, FiniteSets, TLC

(***************************************************************************)
(* Bounds of the model.                                                    *)
(***************************************************************************)
\* largest capacity of the event batch the caller allocates
MaxCap == 1
\* capacity of the pipe in bytes (the peer writes one byte at a time)
PipeCap == 1
\* wake() is followed while the eventfd counter is below this value
MaxCount == 2
\* the eventfd counter saturates here; stands for 0xfffffffffffffffe
EventfdMax == 5
\* signals handled during one do_poll
MaxSignals == 2

(***************************************************************************)
(* Descriptors.  Their numbers are arbitrary; only -1 is special.          *)
(***************************************************************************)
NoFd == -1
EpollFd == 3
PipeRd == 4
PipeWr == 5
EventFd == 6
CloneFd == 7

PipeFds == {PipeRd, PipeWr}
Fds == {PipeRd, PipeWr, EventFd}

(***************************************************************************)
(* tio::interest: a uint8 bit set.                                         *)
(***************************************************************************)
k_readable == 1
k_writable == 2
k_priority == 4

Bit(bits, k) == (bits \div k) % 2 = 1

is_readable(bits) == Bit(bits, k_readable)
is_writable(bits) == Bit(bits, k_writable)
is_priority(bits) == Bit(bits, k_priority)

\* the interests the caller passes in this model
InterestInputs == {k_readable, k_writable}

(***************************************************************************)
(* tio::token.  A std::size_t and the u64 member of epoll_data are 64 bits *)
(* wide: four 16-bit words, the most significant first.                    *)
(***************************************************************************)
Word == 65536
U64(w3, w2, w1, w0) == <<w3 % Word, w2 % Word, w1 % Word, w0 % Word>>

\* std::size_t(-1)
SizeMax == U64(-1, -1, -1, -1)

\* token::token(std::size_t value): value_{value}
token(v) == [value_ |-> U64(v[1], v[2], v[3], v[4])]

\* token::token(): value_{0}
token_default == token(U64(0, 0, 0, 0))

\* token::value
value(t) == t.value_

\* tokens the caller attaches to the pipe ends: register_fd gives the first,
\* reregister_fd either
FirstToken == token(U64(0, 0, 0, 1))
Tokens == {token(U64(0, 0, 0, 1)), token(U64(0, 0, 0, 2))}
\* the token the caller gives the waker, distinct from the sources' tokens
WakerToken == token(U64(0, 0, 0, 65535))

(***************************************************************************)
(* The algebra of interests.                                               *)
(***************************************************************************)
\* the bits of an interest: std::uint8_t bits_
InterestBits == {1, 2, 4, 8, 16, 32, 64, 128}
BitSum(S) == LET RECURSIVE Sum(_)
                 Sum(T) == IF T = {} THEN 0
                           ELSE LET k == CHOOSE k \in T : TRUE
                                IN  k + Sum(T \ {k})
             IN  Sum(S)

\* interest(): bits_{0}
interest_empty == 0
is_empty(bits) == bits = 0

\* operator|: static_cast<std::uint8_t>(bits_ | other.bits_)
interest_or(a, b) == BitSum({k \in InterestBits : Bit(a, k) \/ Bit(b, k)})

\* remove that clears the bits of a that other does not have
interest_remove_kept(a, b) ==
  BitSum({k \in InterestBits : Bit(a, k) /\ Bit(b, k)})

\* remove: static_cast<std::uint8_t>(bits_ & ~other.bits_)
interest_remove(a, b) ==
  BitSum({k \in InterestBits : Bit(a, k) /\ ~Bit(b, k)})

\* every interest the public interface can build: interest(), readable(),
\* writable(), priority() and their unions
AllInterests ==
  LET base == {interest_empty, k_readable, k_writable, k_priority}
  IN  {interest_or(interest_or(x, y), z) : x, y, z \in base}

\* readable() | writable() | priority()
AnyInterest == interest_or(interest_or(k_readable, k_writable), k_priority)

(***************************************************************************)
(* epoll flag words are modelled as sets of flag names.                    *)
(***************************************************************************)
EpollFlags == {"EPOLLIN", "EPOLLPRI", "EPOLLOUT", "EPOLLERR", "EPOLLHUP",
               "EPOLLRDHUP", "EPOLLET"}

\* epoll_selector::interest_to_epoll without EPOLLET (level-triggered)
interest_to_epoll_level(interest) ==
  (IF is_readable(interest) THEN {"EPOLLIN", "EPOLLRDHUP"} ELSE {})
    \cup (IF is_writable(interest) THEN {"EPOLLOUT"} ELSE {})
    \cup (IF is_priority(interest) THEN {"EPOLLPRI"} ELSE {})

\* epoll_selector::interest_to_epoll that leaves out EPOLLRDHUP
interest_to_epoll_no_rdhup(interest) ==
  {"EPOLLET"}
    \cup (IF is_readable(interest) THEN {"EPOLLIN"} ELSE {})
    \cup (IF is_writable(interest) THEN {"EPOLLOUT"} ELSE {})
    \cup (IF is_priority(interest) THEN {"EPOLLPRI"} ELSE {})

\* epoll_selector::interest_to_epoll that watches for input when the
\* interest is empty
interest_to_epoll_default_in(interest) ==
  {"EPOLLET"}
    \cup (IF is_readable(interest) \/ is_empty(interest)
          THEN {"EPOLLIN", "EPOLLRDHUP"} ELSE {})
    \cup (IF is_writable(interest) THEN {"EPOLLOUT"} ELSE {})
    \cup (IF is_priority(interest) THEN {"EPOLLPRI"} ELSE {})

interest_to_epoll(interest) ==
  {"EPOLLET"}
    \cup (IF is_readable(interest) THEN {"EPOLLIN", "EPOLLRDHUP"} ELSE {})
    \cup (IF is_writable(interest) THEN {"EPOLLOUT"} ELSE {})
    \cup (IF is_priority(interest) THEN {"EPOLLPRI"} ELSE {})

(***************************************************************************)
(* tio::event: the predicates over one raw event.                          *)
(***************************************************************************)
\* event::tok that reads the 32-bit member of epoll_data: token{data.u32}
ev_tok_u32(e) == token(U64(0, 0, e.data[3], e.data[4]))

\* event::tok: token{raw_->data.u64}
ev_tok(e) == token(e.data)

\* event::is_readable that takes a hang-up for readable as well
ev_is_readable_or_hup(e) == e.events \cap {"EPOLLIN", "EPOLLHUP"} # {}

ev_is_readable(e) == "EPOLLIN" \in e.events
ev_is_writable(e) == "EPOLLOUT" \in e.events
ev_is_error(e) == "EPOLLERR" \in e.events
ev_is_priority(e) == "EPOLLPRI" \in e.events

\* event::is_write_closed that takes only a hang-up for closed
ev_is_write_closed_hup(e) == "EPOLLHUP" \in e.events

ev_is_read_closed(e) == e.events \cap {"EPOLLHUP", "EPOLLRDHUP"} # {}
ev_is_write_closed(e) == e.events \cap {"EPOLLHUP", "EPOLLERR"} # {}

\* a value-initialised raw_event (fd is a ghost field: the kernel does not
\* report it, the model keeps it to tell which registration an event is of)
ZeroEvent == [data |-> U64(0, 0, 0, 0), events |-> {}, fd |-> NoFd]

VARIABLES
  regs,        \* the epoll instance's interest list: records [fd, data, events]
  rdllist,     \* the epoll instance's ready list: a sequence of fds
  openfds,     \* the descriptors of Fds that are open
  pipe_bytes,  \* bytes buffered in the pipe
  ev_count,    \* the eventfd counter
  waker_made,  \* waker::create has succeeded
  evs,         \* the event batch: [buf, capacity, len]
  poll_pc,     \* the polling thread: "idle", "waiting" (inside epoll_wait),
               \* "interrupted" (epoll_wait gave -1 with errno EINTR and
               \* select is at the condition of its loop) or "copied"
               \* (epoll_wait has handed its events over and not returned)
  poll_arg,    \* the running do_poll: [h, timeout, timeout_ms, elapsed]:
               \* timeout as the caller gave it, timeout_ms as select
               \* passes it to epoll_wait, elapsed: that many milliseconds
               \* have passed in the running epoll_wait
  poll_res,    \* the last do_poll: [done, n, err, before, woken, eintr,
               \* src]; n is what select returned, eintr how often a signal
               \* interrupted its wait; ghosts: src, "read" when the
               \* caller, handed a readable event of the read end by the
               \* last do_poll, has read the pipe empty and the peer has
               \* not written since, else "no"; before, the batch length
               \* do_poll found, and woken: "before", a wake() not yet
               \* reported had completed when it began, or "inside", one
               \* landed while it waited with no timeout, or "no"
  ret,         \* the last registry / waker call: [err, sys], err what the
               \* call returned and sys what its system call returned
  dereg,       \* ghost: per fd, "no", or since the last successful
               \*        deregister_fd with no register_fd after it: "quiet",
               \*        "ready" (the fd had an unpolled event to report when
               \*        it was deregistered), "polled" (ready, and a do_poll
               \*        has succeeded since)
  rereg,       \* ghost: per fd, the last successful register_fd or
               \*        reregister_fd: [state, tok, interest, from_w, via],
               \*        state "pending" until a do_poll delivers an event
               \*        of the fd ("delivered"); from_w: reregistered when
               \*        the fd was registered WRITABLE and writable; via:
               \*        the selector handle the call went through
  nwake,       \* ghost: successful wake() calls since the last drain() and
               \*        the last poll that reported the waker
  reported,    \* ghost: [yes, wakes, wk]: a poll reported the waker and no
               \*        wake() came since; wakes is the nwake that report
               \*        answered; wk: what the last wake() came after
               \*        ("none", "drain", "report") and, once a do_poll has
               \*        reported the waker since, "drain_seen", "report_seen"
  drained,     \* ghost: "no", or "yes": drain() was called and no wake()
               \*        came since, or "polled": and a do_poll has
               \*        succeeded since
  guards,      \* the fd_guard objects: per name [alive, fd_]
  fdtable,     \* the descriptors fd_guards are given: per number [open,
               \*        closes, owner]; ghosts: closes, the close() calls
               \*        made on it, and owner: "none", "guard" (adopted by
               \*        a guard), "caller" (handed back by release()),
               \*        "again" (adopted again after that)
  gop,         \* the last fd_guard operation: [op, g, from, arg, was, out]:
               \*        the guard, the guard moved from, the argument,
               \*        what g held before, and what the call returned
  epoll_open   \* the open descriptors of the epoll instance: those the
               \*        epoll_fd_ guards of its live selectors hold

kernel_vars == <<regs, rdllist, openfds, pipe_bytes, ev_count>>
poll_vars == <<evs, poll_pc, poll_arg, poll_res>>
ghost_vars == <<dereg, rereg, nwake, reported, drained>>
guard_vars == <<guards, fdtable, gop, epoll_open>>
selector_vars == <<regs, rdllist, openfds, pipe_bytes, ev_count, waker_made,
                   evs, poll_pc, poll_arg, poll_res, ret, dereg, rereg,
                   nwake, reported, drained>>
vars == <<regs, rdllist, openfds, pipe_bytes, ev_count, waker_made,
          evs, poll_pc, poll_arg, poll_res, ret, dereg, rereg, nwake,
          reported, drained, guards, fdtable, gop, epoll_open>>

(***************************************************************************)
(* The kernel: files.                                                      *)
(***************************************************************************)
\* the poll mask of the file behind fd, as its f_op->poll reports it
FilePoll(fd) ==
  CASE fd = PipeRd ->
         (IF pipe_bytes > 0 THEN {"EPOLLIN"} ELSE {})
           \cup (IF PipeWr \notin openfds THEN {"EPOLLHUP"} ELSE {})
    [] fd = PipeWr ->
         (IF pipe_bytes < PipeCap THEN {"EPOLLOUT"} ELSE {})
           \cup (IF PipeRd \notin openfds THEN {"EPOLLERR"} ELSE {})
    [] fd = EventFd ->
         (IF ev_count > 0 THEN {"EPOLLIN"} ELSE {})
           \cup (IF ev_count < EventfdMax THEN {"EPOLLOUT"} ELSE {})
    [] OTHER -> {}

(***************************************************************************)
(* The kernel: one epoll instance.                                         *)
(***************************************************************************)
Registered(fd) == \E r \in regs : r.fd = fd
RegOf(fd) == CHOOSE r \in regs : r.fd = fd

SeqRemove(s, x) == SelectSeq(s, LAMBDA y : y # x)
InSeq(s, x) == \E i \in 1..Len(s) : s[i] = x

\* a wait-queue callback that queues the item once more when it is queued
Wakeup_requeue(list, fd, key) ==
  IF /\ Registered(fd)
     /\ (key = {} \/ key \cap RegOf(fd).events # {})
  THEN Append(list, fd)
  ELSE list

\* the wait-queue callback of a registered file: an item whose mask matches
\* the key (or any item, for a wakeup without key) joins the ready list
Wakeup(list, fd, key) ==
  IF /\ Registered(fd)
     /\ (key = {} \/ key \cap RegOf(fd).events # {})
     /\ ~InSeq(list, fd)
  THEN Append(list, fd)
  ELSE list

\* epoll_ctl(epfd, op, fd, &ev) with the files in `open` existing:
\* [err, regs, rdllist]
EpollCtl(epfd, op, fd, ev, open) ==
  LET fail(e) == [err |-> e, regs |-> regs, rdllist |-> rdllist]
      item == [fd |-> fd, data |-> ev.data,
               events |-> ev.events \cup {"EPOLLERR", "EPOLLHUP"}]
      revents == FilePoll(fd) \cap item.events
  IN  IF epfd \notin epoll_open \/ fd \notin open THEN fail("EBADF")
      ELSE CASE op = "ADD" ->
                  IF Registered(fd) THEN fail("EEXIST")
                  ELSE [err |-> "ok",
                        regs |-> regs \cup {item},
                        rdllist |-> IF revents # {}
                                    THEN Append(rdllist, fd) ELSE rdllist]
             [] op = "MOD" ->
                  IF ~Registered(fd) THEN fail("ENOENT")
                  ELSE [err |-> "ok",
                        regs |-> (regs \ {RegOf(fd)}) \cup {item},
                        rdllist |-> IF revents # {} /\ ~InSeq(rdllist, fd)
                                    THEN Append(rdllist, fd) ELSE rdllist]
             [] op = "DEL" ->
                  IF ~Registered(fd) THEN fail("ENOENT")
                  ELSE [err |-> "ok",
                        regs |-> regs \ {RegOf(fd)},
                        rdllist |-> SeqRemove(rdllist, fd)]

\* ep_send_events: walk the ready list, at most k events out.  An item whose
\* file reports nothing it asked for is dropped; an edge-triggered item
\* leaves the list when reported, a level-triggered one is queued again.
\* [out, rest, again]
RECURSIVE ScanReady(_, _)
ScanReady(list, k) ==
  IF list = <<>> \/ k = 0
  THEN [out |-> <<>>, rest |-> list, again |-> <<>>]
  ELSE LET fd == Head(list)
           item == RegOf(fd)
           revents == FilePoll(fd) \cap item.events
       IN  IF revents = {}
           THEN ScanReady(Tail(list), k)
           ELSE LET more == ScanReady(Tail(list), k - 1)
                    e == [data |-> item.data, events |-> revents, fd |-> fd]
                IN  [out |-> <<e>> \o more.out,
                     rest |-> more.rest,
                     again |-> IF "EPOLLET" \in item.events
                               THEN more.again
                               ELSE <<fd>> \o more.again]

\* epoll_wait that forgets the ready items its batch had no room for
EpollWait_flush(epfd, maxevents) ==
  IF maxevents <= 0
  THEN [n |-> -1, err |-> "EINVAL", out |-> <<>>, rdllist |-> rdllist]
  ELSE IF epfd \notin epoll_open
  THEN [n |-> -1, err |-> "EBADF", out |-> <<>>, rdllist |-> rdllist]
  ELSE LET s == ScanReady(rdllist, maxevents)
       IN  [n |-> Len(s.out), err |-> "ok", out |-> s.out,
            rdllist |-> s.again]

\* epoll_wait(epfd, events, maxevents, timeout_ms) when it returns:
\* [n, out, rdllist]; n < 0 is an error and err names it
EpollWait(epfd, maxevents) ==
  IF maxevents <= 0
  THEN [n |-> -1, err |-> "EINVAL", out |-> <<>>, rdllist |-> rdllist]
  ELSE IF epfd \notin epoll_open
  THEN [n |-> -1, err |-> "EBADF", out |-> <<>>, rdllist |-> rdllist]
  ELSE LET s == ScanReady(rdllist, maxevents)
       IN  [n |-> Len(s.out), err |-> "ok", out |-> s.out,
            rdllist |-> s.rest \o s.again]

\* epoll_wait can return now: with an error, with events, or because its
\* timeout ran out: at once when it is 0, after that many milliseconds when
\* it is positive, never when it is negative
EpollWaitReturns(epfd, maxevents, timeout_ms, elapsed) ==
  \/ EpollWait(epfd, maxevents).n # 0
  \/ timeout_ms = 0
  \/ timeout_ms > 0 /\ elapsed

(***************************************************************************)
(* tio::error                                                              *)
(***************************************************************************)
is_would_block(code) == code \in {"EAGAIN", "EWOULDBLOCK"}
is_already_exists(code) == code = "EEXIST"
is_interrupted(code) == code = "EINTR"

(***************************************************************************)
(* poll handles.  The caller made p1 with poll::create() and moved it into *)
(* p2 (poll(poll&&)): p2 owns the epoll instance, and the selector of the  *)
(* moved-from p1 holds an empty fd_guard.  A registry is a pointer to the  *)
(* selector of the poll it came from.                                      *)
(***************************************************************************)
Handles == {"p1", "p2"}

\* poll::get_registry and a copy of the registry: a pointer to the selector
\* of poll h
get_registry(h) == h

\* registry::try_clone: [err, reg]; the selector is duplicated, the
\* duplicate dropped, and the new registry points to the selector of r
registry_try_clone(r) ==
  [err |-> IF r = "p1" THEN "EBADF" ELSE "ok", reg |-> r]

\* epoll_selector::try_clone of the selector of p2: a selector whose
\* descriptor is a dup() of p2's and names the same epoll instance
SharedSelectors ==
  {get_registry("p2"), registry_try_clone(get_registry("p2")).reg, "p2_clone"}

\* epoll_selector::raw_fd of selector h
epoll_fd_(h) ==
  CASE h = "p1" -> NoFd
    [] h = "p2" -> EpollFd
    [] h = "p2_clone" -> CloneFd

(***************************************************************************)
(* epoll_selector / registry: register_fd, reregister_fd, deregister_fd.   *)
(* Each is its one epoll_ctl call: [err, regs, rdllist], the result it     *)
(* returns and the interest list and ready list it leaves.                 *)
(***************************************************************************)

\* register_fd that falls back to EPOLL_CTL_MOD when the fd is registered
register_fd_upsert(h, fd, tok, interest, open) ==
  LET ev == [events |-> interest_to_epoll(interest), data |-> value(tok)]
      add == EpollCtl(epoll_fd_(h), "ADD", fd, ev, open)
  IN  IF add.err = "EEXIST"
      THEN EpollCtl(epoll_fd_(h), "MOD", fd, ev, open) ELSE add

\* register_fd on a cloned selector that keeps an interest list of its
\* own, which the epoll instance of the poll never sees
register_fd_private(h, fd, tok, interest, open) ==
  LET ev == [events |-> interest_to_epoll(interest), data |-> value(tok)]
  IN  IF h = "p2_clone"
      THEN [err |-> "ok", regs |-> regs, rdllist |-> rdllist]
      ELSE EpollCtl(epoll_fd_(h), "ADD", fd, ev, open)

\* register_fd that reports the duplicate and replaces the registration
\* all the same
register_fd_clobber(h, fd, tok, interest, open) ==
  LET ev == [events |-> interest_to_epoll(interest), data |-> value(tok)]
      add == EpollCtl(epoll_fd_(h), "ADD", fd, ev, open)
      mod == EpollCtl(epoll_fd_(h), "MOD", fd, ev, open)
  IN  IF add.err = "EEXIST" THEN [mod EXCEPT !.err = "EEXIST"] ELSE add

\* register_fd whose registration starts with no event queued, whatever
\* the file has to report when it is added
register_fd_edge_only(h, fd, tok, interest, open) ==
  LET ev == [events |-> interest_to_epoll(interest), data |-> value(tok)]
      add == EpollCtl(epoll_fd_(h), "ADD", fd, ev, open)
  IN  [add EXCEPT !.rdllist = rdllist]

register_fd(h, fd, tok, interest, open) ==
  LET ev == [events |-> interest_to_epoll(interest), data |-> value(tok)]
  IN  EpollCtl(epoll_fd_(h), "ADD", fd, ev, open)

\* reregister_fd that leaves the token of the registration as it was
reregister_fd_keeps_token(h, fd, tok, interest) ==
  LET old == IF Registered(fd) THEN RegOf(fd).data ELSE value(tok)
      ev == [events |-> interest_to_epoll(interest), data |-> old]
  IN  EpollCtl(epoll_fd_(h), "MOD", fd, ev, openfds)

\* reregister_fd that adds the registration when there is none to modify
reregister_fd_upsert(h, fd, tok, interest) ==
  LET ev == [events |-> interest_to_epoll(interest), data |-> value(tok)]
      mod == EpollCtl(epoll_fd_(h), "MOD", fd, ev, openfds)
  IN  IF mod.err = "ENOENT"
      THEN EpollCtl(epoll_fd_(h), "ADD", fd, ev, openfds) ELSE mod

reregister_fd(h, fd, tok, interest) ==
  LET ev == [events |-> interest_to_epoll(interest), data |-> value(tok)]
  IN  EpollCtl(epoll_fd_(h), "MOD", fd, ev, openfds)

\* deregister_fd that reports success without calling the kernel
deregister_fd_noop(h, fd) ==
  [err |-> "ok", regs |-> regs, rdllist |-> rdllist]

deregister_fd(h, fd) ==
  EpollCtl(epoll_fd_(h), "DEL", fd,
           [events |-> {}, data |-> U64(0, 0, 0, 0)], openfds)

NoRereg ==
  [state |-> "none", tok |-> token_default, interest |-> 0,
   from_w |-> FALSE, via |-> "p2"]

\* the registration of fd has an event to report that no poll has taken
Unpolled(fd) ==
  /\ Registered(fd)
  /\ InSeq(rdllist, fd)
  /\ FilePoll(fd) \cap RegOf(fd).events # {}

\* the call takes effect: the kernel's lists change and the caller has
\* the result
SetCtl(r) ==
  /\ regs' = r.regs
  /\ rdllist' = r.rdllist
  /\ ret' = [err |-> r.err, sys |-> r.err]

RegisterFd(h, fd, tok, interest) ==
  /\ SetCtl(register_fd(h, fd, tok, interest, openfds))
  /\ IF ret'.err = "ok"
     THEN /\ dereg' = [dereg EXCEPT ![fd] = "no"]
          /\ rereg' = [rereg EXCEPT ![fd] =
                         [state |-> "pending", tok |-> tok,
                          interest |-> interest, from_w |-> FALSE,
                          via |-> h]]
     ELSE UNCHANGED <<dereg, rereg>>
  /\ UNCHANGED <<openfds, pipe_bytes, ev_count, waker_made, poll_vars,
                 nwake, reported, drained>>
  /\ UNCHANGED guard_vars

ReregisterFd(h, fd, tok, interest) ==
  /\ SetCtl(reregister_fd(h, fd, tok, interest))
  /\ IF ret'.err = "ok"
     THEN rereg' = [rereg EXCEPT ![fd] =
                      [state |-> "pending", tok |-> tok, interest |-> interest,
                       from_w |-> /\ "EPOLLOUT" \in RegOf(fd).events
                                  /\ "EPOLLOUT" \in FilePoll(fd),
                       via |-> h]]
     ELSE UNCHANGED rereg
  /\ UNCHANGED <<openfds, pipe_bytes, ev_count, waker_made, poll_vars,
                 dereg, nwake, reported, drained>>
  /\ UNCHANGED guard_vars

DeregisterFd(h, fd) ==
  /\ SetCtl(deregister_fd(h, fd))
  /\ IF ret'.err = "ok"
     THEN /\ dereg' = [dereg EXCEPT ![fd] =
                             IF Unpolled(fd) THEN "ready" ELSE "quiet"]
          /\ rereg' = [rereg EXCEPT ![fd] = NoRereg]
     ELSE UNCHANGED <<dereg, rereg>>
  /\ UNCHANGED <<openfds, pipe_bytes, ev_count, waker_made, poll_vars,
                 nwake, reported, drained>>
  /\ UNCHANGED guard_vars

(***************************************************************************)
(* epoll_selector::try_clone and ~epoll_selector.  A selector holds one    *)
(* descriptor of the epoll instance in its fd_guard epoll_fd_; the kernel  *)
(* frees the instance, its registrations with it, when the last descriptor *)
(* of it is closed.  The model has room for two selectors of the instance. *)
(***************************************************************************)
Selectors == {"p2", "p2_clone"}
LiveSelectors == {h \in Selectors : epoll_fd_(h) \in epoll_open}

\* dup(fd): [err, fd]; fault "EMFILE": the descriptor table is full
Dup(fd, fault) ==
  IF fd \notin epoll_open THEN [err |-> "EBADF", fd |-> -1]
  ELSE IF fault # "ok" THEN [err |-> fault, fd |-> -1]
  ELSE [err |-> "ok",
        fd |-> CHOOSE new \in {EpollFd, CloneFd} : new \notin epoll_open]

\* try_clone: [err, open]: the open descriptors of the instance afterwards,
\* the one of the new selector among them
selector_try_clone(h, fault) ==
  LET new_fd == Dup(epoll_fd_(h), fault)
  IN  IF new_fd.fd < 0
      THEN [err |-> new_fd.err, open |-> epoll_open]
      ELSE [err |-> "ok", open |-> epoll_open \cup {new_fd.fd}]

\* ~epoll_selector under a kernel that frees the instance at the first
\* close of a descriptor of it
selector_dtor_frees(h) ==
  [open |-> epoll_open \ {epoll_fd_(h)}, regs |-> {}, rdllist |-> <<>>]

\* ~epoll_selector: ~fd_guard closes epoll_fd_: [open, regs, rdllist]
selector_dtor(h) ==
  LET open == epoll_open \ {epoll_fd_(h)}
  IN  [open |-> open,
       regs |-> IF open = {} THEN {} ELSE regs,
       rdllist |-> IF open = {} THEN <<>> ELSE rdllist]

TryClone(h, fault) ==
  /\ h \in LiveSelectors
  /\ LiveSelectors # Selectors
  /\ \E r \in {selector_try_clone(h, fault)} :
       /\ epoll_open' = r.open
       /\ ret' = [err |-> r.err, sys |-> r.err]
  /\ UNCHANGED <<kernel_vars, waker_made, poll_vars, ghost_vars>>
  /\ UNCHANGED <<guards, fdtable, gop>>

\* the selector is destroyed; no thread is inside select on it
SelectorDestroy(h) ==
  /\ h \in LiveSelectors
  /\ poll_pc = "idle" \/ poll_arg.h # h
  /\ \E r \in {selector_dtor(h)} :
       /\ epoll_open' = r.open
       /\ regs' = r.regs
       /\ rdllist' = r.rdllist
       /\ rereg' = IF r.open = {} THEN [fd \in PipeFds |-> NoRereg] ELSE rereg
  /\ UNCHANGED <<openfds, pipe_bytes, ev_count, waker_made, poll_vars, ret,
                 dereg, nwake, reported, drained>>
  /\ UNCHANGED <<guards, fdtable, gop>>

(***************************************************************************)
(* What a wake() came after, for the history the waker's properties need.  *)
(***************************************************************************)
\* a wake() completes: it comes after a drain() with no wake() since
\* ("drain"), or after a do_poll that reported a wake() of such a chain with
\* no drain() since ("report"); otherwise it joins the wake() that is owed
WakeAfter ==
  IF drained # "no" THEN "drain"
  ELSE IF reported.yes /\ reported.wk \in {"drain_seen", "report_seen"}
  THEN "report"
  ELSE reported.wk

\* a do_poll reports the waker: the wake() that was owed an event has it
WakeSeen(wk) ==
  CASE wk = "drain" -> "drain_seen"
    [] wk = "report" -> "report_seen"
    [] OTHER -> wk

(***************************************************************************)
(* tio::events, the event batch.                                           *)
(***************************************************************************)
\* buf holds the slots of begin()..end(), which the last successful select
\* wrote; the slots behind end() are not modelled
NewEvents(capacity) == [buf |-> <<>>, capacity |-> capacity, len |-> 0]

\* events::clear that leaves the length as it is
events_clear_noop(e) == e

events_clear(e) == [e EXCEPT !.len = 0, !.buf = <<>>]

events_set_len(e, len) == [e EXCEPT !.len = len]

\* the kernel writes the events it delivers to the front of the buffer
BufStore(buf, out) == out

\* the batch as the caller iterates it: begin() .. end()
\* (an index past the written slots reads a slot the model does not keep)
Slot(e, i) == IF i <= Len(e.buf) THEN e.buf[i] ELSE ZeroEvent
Batch(e) == [i \in 1..e.len |-> Slot(e, i)]

\* the descriptors whose events are in the batch (by the ghost field)
BatchFds(e) == {Slot(e, i).fd : i \in 1..e.len}

(***************************************************************************)
(* epoll_selector::select and poll::do_poll.  do_poll is two steps of the  *)
(* polling thread: it clears the batch and enters epoll_wait, and later    *)
(* epoll_wait returns and the batch length is set.                         *)
(***************************************************************************)
\* std::chrono::milliseconds: count() is a 64-bit signed integer, kept as
\* two limbs [hi, lo] with count = hi * 2^31 + lo and lo in 0 .. 2^31 - 1
Ms(hi, lo) == [hi |-> hi, lo |-> lo]
ms_negative(c) == c.hi < 0
ms_zero(c) == c.hi = 0 /\ c.lo = 0

\* static_cast<int>(count): the low 32 bits of the count, read as a signed
\* 32-bit integer
static_cast_int(c) ==
  IF c.hi % 2 = 1 THEN (c.lo - 1073741824) - 1073741824 ELSE c.lo

\* an optional timeout is <<>> or <<milliseconds>>
TimeoutInputs == {<<>>, <<Ms(0, 0)>>}

\* the arguments of do_poll when no do_poll is running
NoPoll == [h |-> "p2", timeout |-> <<>>, timeout_ms |-> -1, elapsed |-> FALSE]

\* the timeout select passes to epoll_wait
select_timeout_ms(timeout) ==
  IF Len(timeout) = 1 THEN static_cast_int(timeout[1]) ELSE -1

\* select that returns what an interrupted epoll_wait gave it
select_loop_once(n, err) == FALSE

\* the condition of select's loop: call epoll_wait again
select_loop_again(n, err) == n < 0 /\ is_interrupted(err)

PollBegin(h, timeout) ==
  /\ poll_pc = "idle"
  /\ evs' = events_clear(evs)
  /\ poll_arg' = [h |-> h, timeout |-> timeout,
                  timeout_ms |-> select_timeout_ms(timeout),
                  elapsed |-> FALSE]
  /\ poll_res' = [done |-> FALSE, n |-> 0, err |-> "ok", before |-> evs.len,
                  woken |-> IF nwake >= 1 THEN "before" ELSE "no",
                  eintr |-> 0, src |-> poll_res.src]
  /\ poll_pc' = "waiting"
  /\ UNCHANGED <<kernel_vars, waker_made, ret, ghost_vars>>
  /\ UNCHANGED guard_vars

\* what do_poll of poll h on batch e returns with when epoll_wait returns
\* now: [evs, n, err, rdllist]; on an error the batch stays as clear() left
\* it, otherwise its length is the count select returned
do_poll(h, e) ==
  LET w == EpollWait(epoll_fd_(h), e.capacity)
  IN  [evs |-> IF w.n < 0
               THEN e
               ELSE events_set_len([e EXCEPT !.buf = BufStore(@, w.out)], w.n),
       n |-> w.n, err |-> w.err, rdllist |-> w.rdllist]

PollReturn ==
  /\ poll_pc = "waiting"
  /\ EpollWaitReturns(epoll_fd_(poll_arg.h), evs.capacity,
                      poll_arg.timeout_ms, poll_arg.elapsed)
  /\ \E w \in {do_poll(poll_arg.h, evs)} :
     \E got \in {BatchFds(w.evs)} :
         /\ rdllist' = w.rdllist
         /\ evs' = w.evs
         /\ poll_res' = [poll_res EXCEPT !.done = TRUE, !.n = w.n,
                                         !.err = w.err]
         /\ rereg' = [fd \in PipeFds |->
                        IF fd \in got /\ rereg[fd].state = "pending"
                        THEN [rereg[fd] EXCEPT !.state = "delivered"]
                        ELSE rereg[fd]]
         /\ dereg' = [fd \in PipeFds |->
                        IF w.n >= 0 /\ dereg[fd] = "ready"
                        THEN "polled" ELSE dereg[fd]]
         /\ drained' = IF w.n >= 0 /\ drained = "yes" THEN "polled"
                        ELSE drained
         /\ IF EventFd \in got
            THEN /\ reported' = [yes |-> TRUE, wakes |-> nwake,
                                  wk |-> WakeSeen(reported.wk)]
                 /\ nwake' = 0
            ELSE UNCHANGED <<reported, nwake>>
  /\ poll_pc' = "idle"
  /\ poll_arg' = NoPoll
  /\ UNCHANGED <<regs, openfds, pipe_bytes, ev_count, waker_made, ret>>
  /\ UNCHANGED guard_vars

\* inside epoll_wait: the ready list held only items with nothing to report;
\* they are dropped and the wait goes on
EpollWaitRescan ==
  /\ poll_pc = "waiting"
  /\ \E w \in {EpollWait(epoll_fd_(poll_arg.h), evs.capacity)} :
         /\ w.n = 0
         /\ w.rdllist # rdllist
         /\ rdllist' = w.rdllist
  /\ UNCHANGED <<regs, openfds, pipe_bytes, ev_count, waker_made,
                 poll_vars, ret, ghost_vars>>
  /\ UNCHANGED guard_vars

(***************************************************************************)
(* do_poll in the two steps another thread can come between: epoll_wait    *)
(* hands its events over inside the kernel, under the lock of the epoll    *)
(* instance, and only then does the thread leave the system call, select   *)
(* return the count and do_poll set the length of the batch.               *)
(***************************************************************************)
\* ep_send_events: the events are in the buffer and the count is fixed; the
\* polling thread has not returned from epoll_wait yet
EpollWaitCopy ==
  /\ poll_pc = "waiting"
  /\ EpollWaitReturns(epoll_fd_(poll_arg.h), evs.capacity,
                      poll_arg.timeout_ms, poll_arg.elapsed)
  /\ \E w \in {EpollWait(epoll_fd_(poll_arg.h), evs.capacity)} :
       /\ rdllist' = w.rdllist
       /\ evs' = [evs EXCEPT !.buf = BufStore(@, w.out)]
       /\ poll_res' = [poll_res EXCEPT !.n = w.n, !.err = w.err]
  /\ poll_pc' = "copied"
  /\ UNCHANGED <<regs, openfds, pipe_bytes, ev_count, waker_made, poll_arg,
                 ret, ghost_vars>>
  /\ UNCHANGED guard_vars

\* what do_poll returns with once epoll_wait has handed over n events (or
\* failed with err): [evs, n, err]
do_poll_return(e, n, err) ==
  [evs |-> IF n < 0 THEN e ELSE events_set_len(e, n), n |-> n, err |-> err]

\* epoll_wait returns, select returns its count, do_poll sets the length
SelectReturn ==
  /\ poll_pc = "copied"
  /\ \E w \in {do_poll_return(evs, poll_res.n, poll_res.err)} :
     \E got \in {BatchFds(w.evs)} :
         /\ evs' = w.evs
         /\ poll_res' = [poll_res EXCEPT !.done = TRUE]
         /\ rereg' = [fd \in PipeFds |->
                        IF fd \in got /\ rereg[fd].state = "pending"
                        THEN [rereg[fd] EXCEPT !.state = "delivered"]
                        ELSE rereg[fd]]
         /\ dereg' = [fd \in PipeFds |->
                        IF w.n >= 0 /\ dereg[fd] = "ready"
                        THEN "polled" ELSE dereg[fd]]
         /\ drained' = IF w.n >= 0 /\ drained = "yes" THEN "polled"
                        ELSE drained
         /\ IF EventFd \in got
            THEN /\ reported' = [yes |-> TRUE, wakes |-> nwake,
                                  wk |-> WakeSeen(reported.wk)]
                 /\ nwake' = 0
            ELSE UNCHANGED <<reported, nwake>>
  /\ poll_pc' = "idle"
  /\ poll_arg' = NoPoll
  /\ UNCHANGED <<kernel_vars, waker_made, ret>>
  /\ UNCHANGED guard_vars

\* the timeout of the running epoll_wait runs out
Tick ==
  /\ poll_pc = "waiting"
  /\ poll_arg.timeout_ms > 0
  /\ ~poll_arg.elapsed
  /\ poll_arg' = [poll_arg EXCEPT !.elapsed = TRUE]
  /\ UNCHANGED <<kernel_vars, waker_made, evs, poll_pc, poll_res, ret,
                 ghost_vars>>
  /\ UNCHANGED guard_vars

\* a signal is handled on the polling thread while it sleeps in epoll_wait
\* (there is nothing to report and the timeout has not run out): epoll_wait
\* returns -1 with errno EINTR; the count of interrupts stops at MaxSignals
Signal ==
  /\ poll_pc = "waiting"
  /\ EpollWait(epoll_fd_(poll_arg.h), evs.capacity).n = 0
  /\ poll_arg.timeout_ms # 0
  /\ ~poll_arg.elapsed
  /\ poll_pc' = "interrupted"
  /\ poll_res' = [poll_res EXCEPT
                    !.eintr = IF @ < MaxSignals THEN @ + 1 ELSE @]
  /\ UNCHANGED <<kernel_vars, waker_made, evs, poll_arg, ret, ghost_vars>>
  /\ UNCHANGED guard_vars

\* select after the interrupted epoll_wait: the loop calls epoll_wait again
\* with the same timeout_ms, or select returns the error and do_poll hands
\* it on with the batch as clear() left it
SelectRetry ==
  /\ poll_pc = "interrupted"
  /\ IF select_loop_again(-1, "EINTR")
     THEN /\ poll_pc' = "waiting"
          /\ poll_arg' = [poll_arg EXCEPT !.elapsed = FALSE]
          /\ UNCHANGED poll_res
     ELSE /\ poll_pc' = "idle"
          /\ poll_arg' = NoPoll
          /\ poll_res' = [poll_res EXCEPT !.done = TRUE, !.n = -1,
                                          !.err = "EINTR"]
  /\ UNCHANGED <<kernel_vars, waker_made, evs, ret, ghost_vars>>
  /\ UNCHANGED guard_vars

(***************************************************************************)
(* waker and eventfd_waker.                                                *)
(***************************************************************************)
\* waker::create that registers the eventfd for writable readiness
waker_interest_writable == k_writable

\* the interest waker::create registers the eventfd with
waker_interest == k_readable

\* waker::create: eventfd(0, ...) then register_fd(fd, tok, readable); a
\* failed registration destroys the eventfd_waker, which closes the fd
WakerCreate(h, tok) ==
  /\ ~waker_made
  /\ SetCtl(register_fd(h, EventFd, tok, waker_interest,
                        openfds \cup {EventFd}))
  /\ IF ret'.err = "ok"
     THEN /\ waker_made' = TRUE
          /\ openfds' = openfds \cup {EventFd}
     ELSE UNCHANGED <<waker_made, openfds>>
  /\ ev_count' = 0
  /\ UNCHANGED <<pipe_bytes, poll_vars, ghost_vars>>
  /\ UNCHANGED guard_vars

\* eventfd_waker::create followed by register_fd(w.raw_fd(), tok, interest)
\* on the selector: the caller's own registration of an eventfd
EventfdRegister(h, tok, interest) ==
  /\ ~waker_made
  /\ SetCtl(register_fd(h, EventFd, tok, interest, openfds \cup {EventFd}))
  /\ IF ret'.err = "ok"
     THEN /\ waker_made' = TRUE
          /\ openfds' = openfds \cup {EventFd}
     ELSE UNCHANGED <<waker_made, openfds>>
  /\ ev_count' = 0
  /\ UNCHANGED <<pipe_bytes, poll_vars, ghost_vars>>
  /\ UNCHANGED guard_vars

\* write on an eventfd that wakes its waiters only when the counter leaves
\* zero
EventfdWrite_from_zero(fault) ==
  IF fault # "ok"
  THEN [err |-> fault, count |-> ev_count, rdllist |-> rdllist]
  ELSE IF ev_count + 1 > EventfdMax
  THEN [err |-> "EAGAIN", count |-> ev_count, rdllist |-> rdllist]
  ELSE [err |-> "ok", count |-> ev_count + 1,
        rdllist |-> IF ev_count = 0
                    THEN Wakeup(rdllist, EventFd, {"EPOLLIN"}) ELSE rdllist]

\* write(fd, &val, 8) with val = 1 on the eventfd: [err, count, rdllist]
EventfdWrite(fault) ==
  IF fault # "ok"
  THEN [err |-> fault, count |-> ev_count, rdllist |-> rdllist]
  ELSE IF ev_count + 1 > EventfdMax
  THEN [err |-> "EAGAIN", count |-> ev_count, rdllist |-> rdllist]
  ELSE [err |-> "ok", count |-> ev_count + 1,
        rdllist |-> Wakeup(rdllist, EventFd, {"EPOLLIN"})]

\* eventfd_waker::wake and drain are their one system call: [err, sys,
\* count, rdllist], the result returned, the result of the system call, and
\* the counter and ready list it leaves.

\* eventfd_waker::wake that returns every write error, would-block included
wake_strict(fault) ==
  LET w == EventfdWrite(fault)
  IN  [err |-> w.err, sys |-> w.err, count |-> w.count, rdllist |-> w.rdllist]

\* eventfd_waker::wake that reports success without writing
wake_no_write(fault) ==
  [err |-> "ok", sys |-> "ok", count |-> ev_count, rdllist |-> rdllist]

wake(fault) ==
  LET w == EventfdWrite(fault)
  IN  [err |-> IF w.err # "ok" /\ ~is_would_block(w.err) THEN w.err ELSE "ok",
       sys |-> w.err, count |-> w.count, rdllist |-> w.rdllist]

\* read(fd, &val, 8) on the eventfd: the counter is returned and reset, and
\* writers are woken; an empty counter gives EAGAIN
EventfdRead ==
  IF ev_count > 0
  THEN [err |-> "ok", count |-> 0,
        rdllist |-> Wakeup(rdllist, EventFd, {"EPOLLOUT"})]
  ELSE [err |-> "EAGAIN", count |-> ev_count, rdllist |-> rdllist]

\* eventfd_waker::drain that does not read
drain_noop ==
  [err |-> "ok", sys |-> "ok", count |-> ev_count, rdllist |-> rdllist]

\* eventfd_waker::drain: one read, its result ignored
drain ==
  LET r == EventfdRead
  IN  [err |-> "ok", sys |-> r.err, count |-> r.count, rdllist |-> r.rdllist]

\* the call takes effect
SetWaker(r) ==
  /\ ev_count' = r.count
  /\ rdllist' = r.rdllist
  /\ ret' = [err |-> r.err, sys |-> r.sys]

\* the errors a broken descriptor makes write(2) fail with
WriteFaults == {"EBADF"}

Min(a, b) == IF a < b THEN a ELSE b

Wake(fault) ==
  /\ waker_made
  /\ fault = "ok" => (ev_count < MaxCount \/ ev_count >= EventfdMax - 1)
  /\ SetWaker(wake(fault))
  /\ IF ret'.sys = "ok"
     THEN /\ nwake' = Min(nwake + 1, 2)
          /\ reported' = [yes |-> FALSE, wakes |-> 0, wk |-> WakeAfter]
          /\ drained' = "no"
          /\ poll_res' = IF /\ poll_pc = "waiting"
                            /\ poll_arg.timeout_ms < 0
                            /\ poll_res.woken = "no"
                         THEN [poll_res EXCEPT !.woken = "inside"]
                         ELSE poll_res
     ELSE UNCHANGED <<nwake, reported, drained, poll_res>>
  /\ UNCHANGED <<regs, openfds, pipe_bytes, waker_made, evs, poll_pc,
                 poll_arg, dereg, rereg>>
  /\ UNCHANGED guard_vars

Drain ==
  /\ waker_made
  /\ SetWaker(drain)
  /\ nwake' = 0
  /\ drained' = "yes"
  /\ UNCHANGED <<regs, openfds, pipe_bytes, waker_made, poll_vars,
                 dereg, rereg, reported>>
  /\ UNCHANGED guard_vars

\* the last copy of the waker is destroyed: ~inner, ~eventfd_waker and
\* ~fd_guard close the eventfd, and its registration goes with the file;
\* the wakes of that waker are no longer owed, what the do_polls so far
\* have reported stays on record
WakerDestroy ==
  /\ waker_made
  /\ waker_made' = FALSE
  /\ openfds' = openfds \ {EventFd}
  /\ regs' = {r \in regs : r.fd # EventFd}
  /\ rdllist' = SeqRemove(rdllist, EventFd)
  /\ ev_count' = 0
  /\ nwake' = 0
  /\ UNCHANGED <<pipe_bytes, poll_vars, ret, dereg, rereg, reported, drained>>
  /\ UNCHANGED guard_vars

(***************************************************************************)
(* The caller's own I/O on the pipe the tests register (pipe_fds).         *)
(***************************************************************************)
\* write(write_end, buf, 1) by the peer: one byte, readers are woken
PipeWrite ==
  /\ PipeWr \in openfds
  /\ PipeRd \in openfds
  /\ pipe_bytes < PipeCap
  /\ pipe_bytes' = pipe_bytes + 1
  /\ rdllist' = Wakeup(rdllist, PipeRd, {"EPOLLIN"})
  /\ poll_res' = [poll_res EXCEPT !.src = "no"]
  /\ UNCHANGED <<regs, openfds, ev_count, waker_made, evs, poll_pc,
                 poll_arg, ret, ghost_vars>>
  /\ UNCHANGED guard_vars

\* read(read_end, buf, n): n bytes leave; writers are woken if it was full
PipeRead(n) ==
  /\ PipeRd \in openfds
  /\ n \in 1..pipe_bytes
  /\ pipe_bytes' = pipe_bytes - n
  /\ rdllist' = IF pipe_bytes = PipeCap
                THEN Wakeup(rdllist, PipeWr, {"EPOLLOUT"}) ELSE rdllist
  /\ poll_res' = IF /\ pipe_bytes' = 0
                    /\ poll_res.done
                    /\ \E i \in 1..evs.len : /\ Slot(evs, i).fd = PipeRd
                                              /\ ev_is_readable(Slot(evs, i))
                 THEN [poll_res EXCEPT !.src = "read"] ELSE poll_res
  /\ UNCHANGED <<regs, openfds, ev_count, waker_made, evs, poll_pc,
                 poll_arg, ret, ghost_vars>>
  /\ UNCHANGED guard_vars

\* close(fd) of a pipe end that leaves the registration of fd in the epoll
\* instance
PipeClose_keeps_registration(fd) ==
  /\ fd \in openfds
  /\ openfds' = openfds \ {fd}
  /\ rereg' = [rereg EXCEPT ![fd] = NoRereg]
  /\ UNCHANGED <<regs, rdllist, pipe_bytes, ev_count, waker_made, poll_vars,
                 ret, dereg, nwake, reported, drained>>
  /\ UNCHANGED guard_vars

\* close(fd) of a pipe end: its registration goes with the file, and the
\* other end's waiters are woken (hang-up / error)
PipeClose(fd) ==
  /\ fd \in openfds
  /\ openfds' = openfds \ {fd}
  /\ regs' = {r \in regs : r.fd # fd}
  /\ LET peer == IF fd = PipeRd THEN PipeWr ELSE PipeRd
         list == SeqRemove(rdllist, fd)
     IN  rdllist' = IF peer \in openfds /\ Registered(peer) /\ ~InSeq(list, peer)
                    THEN Append(list, peer) ELSE list
  /\ rereg' = [rereg EXCEPT ![fd] = NoRereg]
  /\ UNCHANGED <<pipe_bytes, ev_count, waker_made, poll_vars, ret,
                 dereg, nwake, reported, drained>>
  /\ UNCHANGED guard_vars

\* make_pipe() after both ends of the old pipe were closed: pipe2 hands out
\* the lowest free numbers, which are those of the old ends, for an empty
\* pipe
MakePipe ==
  /\ openfds \cap PipeFds = {}
  /\ openfds' = openfds \cup PipeFds
  /\ pipe_bytes' = 0
  /\ poll_res' = [poll_res EXCEPT !.src = "no"]
  /\ UNCHANGED <<regs, rdllist, ev_count, waker_made, evs, poll_pc,
                 poll_arg, ret, ghost_vars>>
  /\ UNCHANGED guard_vars

(***************************************************************************)
(* tio::detail::fd_guard.  The caller has made two pipes and gives their   *)
(* read ends R1 and R2, or a negative number, to two guards.  Each         *)
(* operation is [g, t, out]: the guards and the descriptor table it        *)
(* leaves, and the value it returns.                                       *)
(***************************************************************************)
Guards == {"g1", "g2"}
R1 == 8
R2 == 9
GuardFds == {R1, R2}
\* a negative number other than -1
BadFd == -2

NoGuard == [alive |-> FALSE, fd_ |-> NoFd]
FreshFd == [open |-> TRUE, closes |-> 0, owner |-> "none"]
NoOp == [op |-> "none", g |-> "g1", from |-> "g1", arg |-> NoFd,
         was |-> NoFd, out |-> NoFd]

\* close(fd) as the guard calls it, for fd >= 0: the descriptor is closed;
\* on a descriptor that is closed already it fails with EBADF
Close(t, fd) ==
  IF fd \in GuardFds
  THEN [t EXCEPT ![fd].open = FALSE, ![fd].closes = @ + 1]
  ELSE t

\* the guard takes fd: (ghost) the descriptor is owned by a guard
Adopt(t, fd) ==
  IF fd \in GuardFds
  THEN [t EXCEPT ![fd].owner = IF @ \in {"caller", "again"}
                                THEN "again" ELSE "guard"]
  ELSE t

raw_fd(g, x) == g[x].fd_
operator_bool(g, x) == g[x].fd_ >= 0

\* fd_guard(): fd_{-1}
fd_guard_default(g, t, x) ==
  [g |-> [g EXCEPT ![x] = [alive |-> TRUE, fd_ |-> -1]], t |-> t,
   out |-> NoFd]

\* explicit fd_guard(int fd): fd_{fd}
fd_guard(g, t, x, fd) ==
  [g |-> [g EXCEPT ![x] = [alive |-> TRUE, fd_ |-> fd]], t |-> Adopt(t, fd),
   out |-> NoFd]

\* ~fd_guard(): if (fd_ >= 0) close(fd_)
fd_guard_dtor(g, t, x) ==
  [g |-> [g EXCEPT ![x] = NoGuard],
   t |-> IF g[x].fd_ >= 0 THEN Close(t, g[x].fd_) ELSE t,
   out |-> NoFd]

\* fd_guard(fd_guard&& other): fd_{std::exchange(other.fd_, -1)}
fd_guard_move(g, t, x, other) ==
  [g |-> [g EXCEPT ![x] = [alive |-> TRUE, fd_ |-> g[other].fd_],
                   ![other].fd_ = -1],
   t |-> t, out |-> NoFd]

\* operator=(fd_guard&&) without the test for self-assignment
move_assign_unguarded(g, t, x, other) ==
  [g |-> [g EXCEPT ![other].fd_ = -1, ![x].fd_ = g[other].fd_],
   t |-> IF g[x].fd_ >= 0 THEN Close(t, g[x].fd_) ELSE t,
   out |-> NoFd]

\* operator=(fd_guard&& other)
move_assign(g, t, x, other) ==
  IF x # other
  THEN [g |-> [g EXCEPT ![other].fd_ = -1, ![x].fd_ = g[other].fd_],
        t |-> IF g[x].fd_ >= 0 THEN Close(t, g[x].fd_) ELSE t,
        out |-> NoFd]
  ELSE [g |-> g, t |-> t, out |-> NoFd]

\* release() that closes the descriptor it hands back
release_closing(g, t, x) ==
  [g |-> [g EXCEPT ![x].fd_ = -1],
   t |-> IF g[x].fd_ >= 0 THEN Close(t, g[x].fd_) ELSE t,
   out |-> g[x].fd_]

\* release(): return std::exchange(fd_, -1)
release(g, t, x) ==
  [g |-> [g EXCEPT ![x].fd_ = -1],
   t |-> IF g[x].fd_ \in GuardFds
         THEN [t EXCEPT ![g[x].fd_].owner = "caller"] ELSE t,
   out |-> g[x].fd_]

\* reset(fd): if (fd_ >= 0) close(fd_); fd_ = fd
reset(g, t, x, fd) ==
  [g |-> [g EXCEPT ![x].fd_ = fd],
   t |-> Adopt(IF g[x].fd_ >= 0 THEN Close(t, g[x].fd_) ELSE t, fd),
   out |-> NoFd]

\* the guards that exist, and the descriptors no guard holds
Alive == {x \in Guards : guards[x].alive}
Held == {guards[x].fd_ : x \in Alive}

\* what the caller gives a new guard: a negative number, or an open
\* descriptor that no guard owns (fresh from pipe(), or handed back by
\* release())
CtorInputs ==
  {NoFd, BadFd} \cup {fd \in GuardFds : fdtable[fd].open /\ fd \notin Held}

\* what the caller gives reset: the same, or the open descriptor the guard
\* holds already (g.reset(g.raw_fd()))
ResetInputs(x) ==
  CtorInputs \cup {fd \in GuardFds : fdtable[fd].open /\ fd = guards[x].fd_}

SetGuard(r, op) ==
  /\ guards' = r.g
  /\ fdtable' = r.t
  /\ gop' = [op EXCEPT !.out = r.out]
  /\ UNCHANGED epoll_open
  /\ UNCHANGED selector_vars

Construct(x) ==
  /\ ~guards[x].alive
  /\ SetGuard(fd_guard_default(guards, fdtable, x),
              [NoOp EXCEPT !.op = "fd_guard", !.g = x, !.from = x])

ConstructFrom(x, fd) ==
  /\ ~guards[x].alive
  /\ fd \in CtorInputs
  /\ SetGuard(fd_guard(guards, fdtable, x, fd),
              [NoOp EXCEPT !.op = "fd_guard", !.g = x, !.from = x,
                           !.arg = fd])

MoveConstruct(x, other) ==
  /\ ~guards[x].alive
  /\ guards[other].alive
  /\ SetGuard(fd_guard_move(guards, fdtable, x, other),
              [NoOp EXCEPT !.op = "move", !.g = x, !.from = other,
                           !.arg = guards[other].fd_])

MoveAssign(x, other) ==
  /\ guards[x].alive
  /\ guards[other].alive
  /\ SetGuard(move_assign(guards, fdtable, x, other),
              [NoOp EXCEPT !.op = "move_assign", !.g = x, !.from = other,
                           !.arg = guards[other].fd_,
                           !.was = guards[x].fd_])

Release(x) ==
  /\ guards[x].alive
  /\ SetGuard(release(guards, fdtable, x),
              [NoOp EXCEPT !.op = "release", !.g = x, !.from = x,
                           !.was = guards[x].fd_])

Reset(x, fd) ==
  /\ guards[x].alive
  /\ fd \in ResetInputs(x)
  /\ SetGuard(reset(guards, fdtable, x, fd),
              [NoOp EXCEPT !.op = "reset", !.g = x, !.from = x, !.arg = fd,
                           !.was = guards[x].fd_])

Destroy(x) ==
  /\ guards[x].alive
  /\ SetGuard(fd_guard_dtor(guards, fdtable, x),
              [NoOp EXCEPT !.op = "dtor", !.g = x, !.from = x,
                           !.was = guards[x].fd_])

(***************************************************************************)
(* registry::try_clone: sel_->try_clone() into the local `cloned`, then     *)
(* return registry{sel_}; `cloned` and the fd_guard of its descriptor are   *)
(* destroyed on the way out.  gop records that ~fd_guard, with the          *)
(* descriptor it closed.                                                    *)
(***************************************************************************)
\* registry::try_clone that returns a registry of the cloned selector, which
\* stays alive with it
RegistryTryClone_owns(r, fault) ==
  /\ LiveSelectors # Selectors
  /\ \E c \in {selector_try_clone(r, fault)} :
       /\ epoll_open' = c.open
       /\ ret' = [err |-> c.err, sys |-> c.err]
  /\ UNCHANGED <<kernel_vars, waker_made, poll_vars, ghost_vars>>
  /\ UNCHANGED <<guards, fdtable, gop>>

RegistryTryClone(r, fault) ==
  /\ LiveSelectors # Selectors
  /\ \E c \in {selector_try_clone(r, fault)} :
     \E tmp \in {c.open \ epoll_open} :
     \E left \in {c.open \ tmp} :
       /\ epoll_open' = left
       /\ regs' = IF left = {} THEN {} ELSE regs
       /\ rdllist' = IF left = {} THEN <<>> ELSE rdllist
       /\ ret' = [err |-> c.err, sys |-> c.err]
       /\ gop' = IF tmp = {} THEN gop
                 ELSE [NoOp EXCEPT !.op = "dtor",
                                   !.was = CHOOSE fd \in tmp : TRUE]
  /\ UNCHANGED <<openfds, pipe_bytes, ev_count, waker_made, poll_vars,
                 ghost_vars, guards, fdtable>>

(***************************************************************************)
(* The state after poll::create(), pipe(fds) and events evs{capacity}.     *)
(***************************************************************************)
\* with a batch of one of the capacities caps
InitCap(caps) ==
  /\ regs = {}
  /\ rdllist = <<>>
  /\ openfds = PipeFds
  /\ pipe_bytes = 0
  /\ ev_count = 0
  /\ waker_made = FALSE
  /\ evs \in {NewEvents(c) : c \in caps}
  /\ poll_pc = "idle"
  /\ poll_arg = NoPoll
  /\ poll_res = [done |-> FALSE, n |-> 0, err |-> "ok", before |-> 0,
                 woken |-> "no", eintr |-> 0, src |-> "no"]
  /\ ret = [err |-> "ok", sys |-> "ok"]
  /\ dereg = [fd \in PipeFds |-> "no"]
  /\ rereg = [fd \in PipeFds |-> NoRereg]
  /\ nwake = 0
  /\ reported = [yes |-> FALSE, wakes |-> 0, wk |-> "none"]
  /\ drained = "no"
  /\ guards = [g \in Guards |-> NoGuard]
  /\ fdtable = [fd \in GuardFds |-> FreshFd]
  /\ gop = NoOp
  /\ epoll_open = {EpollFd, CloneFd}

Init == InitCap(0..MaxCap)

(***************************************************************************)
(* The selector with the two ends of a pipe as sources, polled through the *)
(* live handle into a batch of capacity MaxCap.                            *)
(***************************************************************************)
InitSelector == Init /\ evs.capacity = MaxCap

Next ==
  \/ \E fd \in PipeFds, i \in InterestInputs :
       RegisterFd("p2", fd, FirstToken, i)
  \/ \E fd \in PipeFds, tok \in Tokens, i \in InterestInputs :
       ReregisterFd("p2", fd, tok, i)
  \/ \E fd \in PipeFds : DeregisterFd("p2", fd)
  \/ \E t \in TimeoutInputs : PollBegin("p2", t)
  \/ PollReturn
  \/ EpollWaitRescan
  \/ PipeWrite
  \/ \E n \in 1..PipeCap : PipeRead(n)
  \/ \E fd \in PipeFds : PipeClose(fd)

Spec == InitSelector /\ [][Next]_vars

(***************************************************************************)
(* The waker, with the read end of the pipe as the one other source,       *)
(* polled through either handle into a batch of capacity 0 .. MaxCap.      *)
(***************************************************************************)
NextWaker ==
  \/ \E h \in Handles : WakerCreate(h, WakerToken)
  \/ \E f \in {"ok"} \cup WriteFaults : Wake(f)
  \/ Drain
  \/ RegisterFd("p2", PipeRd, FirstToken, k_readable)
  \/ \E t \in TimeoutInputs : PollBegin("p2", t)
  \/ PollBegin("p1", <<Ms(0, 0)>>)
  \/ PollReturn
  \/ EpollWaitRescan
  \/ PipeWrite
  \/ \E n \in 1..PipeCap : PipeRead(n)

SpecWaker == Init /\ [][NextWaker]_vars

(***************************************************************************)
(* The waker under a poll loop on the live handle, with a batch that holds *)
(* at least one event: the kernel lets an epoll_wait that can return do    *)
(* so, and the caller, when do_poll has returned, calls it again.          *)
(***************************************************************************)
InitLive == Init /\ evs.capacity >= 1

PollAgain == \E t \in TimeoutInputs : PollBegin("p2", t)

NextLive ==
  \/ WakerCreate("p2", WakerToken)
  \/ Wake("ok")
  \/ Drain
  \/ RegisterFd("p2", PipeRd, FirstToken, k_readable)
  \/ PollAgain
  \/ PollReturn
  \/ EpollWaitRescan
  \/ PipeWrite
  \/ \E n \in 1..PipeCap : PipeRead(n)

SpecWakerLive ==
  /\ InitLive
  /\ [][NextLive]_vars
  /\ WF_vars(PollReturn)
  /\ WF_vars(PollAgain)

(***************************************************************************)
(* The waker after so many undrained wake() calls that the eventfd counter *)
(* is one short of its maximum: the next wake() saturates it, and the one  *)
(* after that would block.                                                 *)
(***************************************************************************)
InitSat ==
  /\ regs = {[fd |-> EventFd, data |-> value(WakerToken),
              events |-> interest_to_epoll(waker_interest)
                           \cup {"EPOLLERR", "EPOLLHUP"}]}
  /\ rdllist = <<EventFd>>
  /\ openfds = Fds
  /\ pipe_bytes = 0
  /\ ev_count = EventfdMax - 1
  /\ waker_made = TRUE
  /\ evs \in {NewEvents(c) : c \in 0..MaxCap}
  /\ poll_pc = "idle"
  /\ poll_arg = NoPoll
  /\ poll_res = [done |-> FALSE, n |-> 0, err |-> "ok", before |-> 0,
                 woken |-> "no", eintr |-> 0, src |-> "no"]
  /\ ret = [err |-> "ok", sys |-> "ok"]
  /\ dereg = [fd \in PipeFds |-> "no"]
  /\ rereg = [fd \in PipeFds |-> NoRereg]
  /\ nwake = 2
  /\ reported = [yes |-> FALSE, wakes |-> 0, wk |-> "none"]
  /\ drained = "no"
  /\ guards = [g \in Guards |-> NoGuard]
  /\ fdtable = [fd \in GuardFds |-> FreshFd]
  /\ gop = NoOp
  /\ epoll_open = {EpollFd, CloneFd}

SpecSat == (Init \/ InitSat) /\ [][NextWaker]_vars

(***************************************************************************)
(* select under timeouts and signals: the read end of the pipe as the one  *)
(* source, polled through either handle into a batch of capacity           *)
(* 0 .. MaxCap with an absent timeout or one of SelectCounts milliseconds, *)
(* while time passes and signals arrive on the polling thread.             *)
(***************************************************************************)
\* 0, 10, -1, 2^31 (std::chrono::hours(600) is more), 2^32 + 10
SelectCounts ==
  {Ms(0, 0), Ms(0, 10), Ms(-1, 2147483647), Ms(1, 0), Ms(2, 10)}

SelectTimeouts == {<<>>} \cup {<<c>> : c \in SelectCounts}

NextSelect ==
  \/ RegisterFd("p2", PipeRd, FirstToken, k_readable)
  \/ \E h \in Handles, t \in SelectTimeouts : PollBegin(h, t)
  \/ PollReturn
  \/ EpollWaitRescan
  \/ Tick
  \/ Signal
  \/ SelectRetry
  \/ PipeWrite
  \/ \E n \in 1..PipeCap : PipeRead(n)

SpecSelect == Init /\ [][NextSelect]_vars

\* time passes, an epoll_wait that can return does, and select goes on
\* after an interrupt; signals may arrive at any time
SpecSelectLive ==
  /\ Init
  /\ [][NextSelect]_vars
  /\ WF_vars(Tick)
  /\ WF_vars(PollReturn)
  /\ WF_vars(SelectRetry)

(***************************************************************************)
(* One epoll instance shared between threads: the registry of the live     *)
(* poll, its copies and clones, and a cloned selector register the read    *)
(* end of the pipe beside a waker, while a thread polls through either     *)
(* selector.                                                               *)
(***************************************************************************)
NextShare ==
  \/ \E r \in SharedSelectors : RegisterFd(r, PipeRd, FirstToken, k_readable)
  \/ \E r \in SharedSelectors, tok \in Tokens :
       ReregisterFd(r, PipeRd, tok, k_readable)
  \/ \E r \in SharedSelectors : DeregisterFd(r, PipeRd)
  \/ WakerCreate("p2", WakerToken)
  \/ Wake("ok")
  \/ \E h \in SharedSelectors, t \in TimeoutInputs : PollBegin(h, t)
  \/ PollReturn
  \/ EpollWaitRescan
  \/ PipeWrite
  \/ \E n \in 1..PipeCap : PipeRead(n)

SpecShare == InitSelector /\ [][NextShare]_vars

(***************************************************************************)
(* Two fd_guards over their lifetimes: constructed, moved, released,       *)
(* reset and destroyed in any order.                                       *)
(***************************************************************************)
NextGuard ==
  \/ \E x \in Guards : Construct(x)
  \/ \E x \in Guards, fd \in GuardFds \cup {NoFd, BadFd} : ConstructFrom(x, fd)
  \/ \E x, other \in Guards : MoveConstruct(x, other)
  \/ \E x, other \in Guards : MoveAssign(x, other)
  \/ \E x \in Guards : Release(x)
  \/ \E x \in Guards, fd \in GuardFds \cup {NoFd, BadFd} : Reset(x, fd)
  \/ \E x \in Guards : Destroy(x)

SpecGuard == InitSelector /\ [][NextGuard]_vars

(***************************************************************************)
(* The selector under every interest: the caller builds interests with     *)
(* operator| and remove and registers the read end of the pipe with them,  *)
(* and the write end with the empty interest.                              *)
(***************************************************************************)
NextInterest ==
  \/ \E a \in {interest_empty, k_readable},
        b \in {interest_empty, k_writable},
        c \in {interest_empty, k_priority} :
       RegisterFd("p2", PipeRd, FirstToken, interest_or(interest_or(a, b), c))
  \/ \E b \in AllInterests :
       ReregisterFd("p2", PipeRd, FirstToken, interest_remove(AnyInterest, b))
  \/ RegisterFd("p2", PipeWr, FirstToken, interest_empty)
  \/ PollBegin("p2", <<Ms(0, 0)>>)
  \/ PollReturn
  \/ EpollWaitRescan
  \/ PipeWrite
  \/ \E n \in 1..PipeCap : PipeRead(n)
  \/ \E fd \in PipeFds : PipeClose(fd)

SpecInterest == InitSelector /\ [][NextInterest]_vars

(***************************************************************************)
(* The selector under tokens of the whole 64-bit range: the read end of    *)
(* the pipe is registered, reregistered and deregistered with them.        *)
(***************************************************************************)
\* token values: 0, 1, one with four different words, one that differs from
\* it in the upper half only, and std::size_t(-1)
TokenInputs ==
  {U64(0, 0, 0, 0), U64(0, 0, 0, 1), U64(1, 2, 3, 4), U64(4, 3, 3, 4),
   SizeMax}

NextToken ==
  \/ \E v \in TokenInputs : RegisterFd("p2", PipeRd, token(v), k_readable)
  \/ \E v \in TokenInputs : ReregisterFd("p2", PipeRd, token(v), k_readable)
  \/ DeregisterFd("p2", PipeRd)
  \/ PollBegin("p2", <<Ms(0, 0)>>)
  \/ PollReturn
  \/ EpollWaitRescan
  \/ PipeWrite
  \/ \E n \in 1..PipeCap : PipeRead(n)
  \/ PipeClose(PipeWr)

SpecToken == InitSelector /\ [][NextToken]_vars

(***************************************************************************)
(* The selector of the live poll and its clones: either is cloned and      *)
(* destroyed, and the read end of the pipe is registered, reregistered,    *)
(* deregistered and polled through whichever is alive.                     *)
(***************************************************************************)
InitClone ==
  /\ regs = {}
  /\ rdllist = <<>>
  /\ openfds = PipeFds
  /\ pipe_bytes = 0
  /\ ev_count = 0
  /\ waker_made = FALSE
  /\ evs = NewEvents(MaxCap)
  /\ poll_pc = "idle"
  /\ poll_arg = NoPoll
  /\ poll_res = [done |-> FALSE, n |-> 0, err |-> "ok", before |-> 0,
                 woken |-> "no", eintr |-> 0, src |-> "no"]
  /\ ret = [err |-> "ok", sys |-> "ok"]
  /\ dereg = [fd \in PipeFds |-> "no"]
  /\ rereg = [fd \in PipeFds |-> NoRereg]
  /\ nwake = 0
  /\ reported = [yes |-> FALSE, wakes |-> 0, wk |-> "none"]
  /\ drained = "no"
  /\ guards = [g \in Guards |-> NoGuard]
  /\ fdtable = [fd \in GuardFds |-> FreshFd]
  /\ gop = NoOp
  /\ epoll_open = {EpollFd}

NextClone ==
  \/ \E h \in LiveSelectors, fault \in {"ok", "EMFILE"} : TryClone(h, fault)
  \/ \E h \in LiveSelectors : SelectorDestroy(h)
  \/ \E h \in LiveSelectors : RegisterFd(h, PipeRd, FirstToken, k_readable)
  \/ \E h \in LiveSelectors, tok \in Tokens :
       ReregisterFd(h, PipeRd, tok, k_readable)
  \/ \E h \in LiveSelectors : DeregisterFd(h, PipeRd)
  \/ \E h \in LiveSelectors : PollBegin(h, <<Ms(0, 0)>>)
  \/ PollReturn
  \/ EpollWaitRescan
  \/ PipeWrite
  \/ \E n \in 1..PipeCap : PipeRead(n)

SpecClone == InitClone /\ [][NextClone]_vars

(***************************************************************************)
(* One thread polls the selector while another registers and deregisters   *)
(* the read end of the pipe and a third writes to the pipe and reads it.   *)
(***************************************************************************)
NextRace ==
  \/ RegisterFd("p2", PipeRd, FirstToken, k_readable)
  \/ DeregisterFd("p2", PipeRd)
  \/ \E t \in TimeoutInputs : PollBegin("p2", t)
  \/ EpollWaitCopy
  \/ SelectReturn
  \/ EpollWaitRescan
  \/ PipeWrite
  \/ \E n \in 1..PipeCap : PipeRead(n)

SpecRace == InitSelector /\ [][NextRace]_vars

(***************************************************************************)
(* The selector with sources that fall silent: both ends of the pipe are   *)
(* registered and the pipe is written, read and closed until a do_poll     *)
(* has delivered an event; from then on the caller only polls.             *)
(***************************************************************************)
\* no do_poll has delivered an event of a registered pipe end yet
NoneDelivered == \A fd \in PipeFds : rereg[fd].state # "delivered"

NextEdge ==
  \/ \E fd \in PipeFds, i \in InterestInputs :
       RegisterFd("p2", fd, FirstToken, i)
  \/ \E t \in TimeoutInputs : PollBegin("p2", t)
  \/ PollReturn
  \/ EpollWaitRescan
  \/ NoneDelivered /\ PipeWrite
  \/ NoneDelivered /\ \E n \in 1..PipeCap : PipeRead(n)
  \/ NoneDelivered /\ \E fd \in PipeFds : PipeClose(fd)

SpecEdge == InitSelector /\ [][NextEdge]_vars

(***************************************************************************)
(* The selector with a source that is ready before it is registered: the   *)
(* pipe is written, read and closed only while its read end is not         *)
(* registered; a waker may be made, woken and drained ahead of it.         *)
(***************************************************************************)
NextEarly ==
  \/ ~Registered(PipeRd) /\ PipeWrite
  \/ ~Registered(PipeRd) /\ \E n \in 1..PipeCap : PipeRead(n)
  \/ ~Registered(PipeRd) /\ PipeClose(PipeWr)
  \/ RegisterFd("p2", PipeRd, FirstToken, k_readable)
  \/ DeregisterFd("p2", PipeRd)
  \/ WakerCreate("p2", WakerToken)
  \/ Wake("ok")
  \/ Drain
  \/ \E t \in TimeoutInputs : PollBegin("p2", t)
  \/ PollReturn
  \/ EpollWaitRescan

SpecEarly == Init /\ [][NextEarly]_vars

(***************************************************************************)
(* The selector with two sources and a batch with room for both: the read  *)
(* end of the pipe registered READABLE and an eventfd registered           *)
(* READABLE | WRITABLE.                                                    *)
(***************************************************************************)
NextBatch ==
  \/ RegisterFd("p2", PipeRd, FirstToken, k_readable)
  \/ EventfdRegister("p2", WakerToken, interest_or(k_readable, k_writable))
  \/ Wake("ok")
  \/ Drain
  \/ PollBegin("p2", <<Ms(0, 0)>>)
  \/ PollReturn
  \/ EpollWaitRescan
  \/ PipeWrite
  \/ \E n \in 1..PipeCap : PipeRead(n)

SpecBatch == InitCap({MaxCap + 1}) /\ [][NextBatch]_vars

(***************************************************************************)
(* The selector with sources that are destroyed while registered: the read *)
(* end of a pipe and a waker are registered, closed by their destructors,  *)
(* and made again under the same descriptor numbers.                       *)
(***************************************************************************)
NextClose ==
  \/ RegisterFd("p2", PipeRd, FirstToken, k_readable)
  \/ \E fd \in PipeFds : PipeClose(fd)
  \/ MakePipe
  \/ WakerCreate("p2", WakerToken)
  \/ Wake("ok")
  \/ WakerDestroy
  \/ PollBegin("p2", <<Ms(0, 0)>>)
  \/ PollReturn
  \/ EpollWaitRescan
  \/ PipeWrite
  \/ \E n \in 1..PipeCap : PipeRead(n)

SpecClose == InitSelector /\ [][NextClose]_vars

(***************************************************************************)
(* The registry of the live poll is cloned, also when no descriptor is     *)
(* free, as is the registry of the moved-from poll; the read end of the    *)
(* pipe is registered and deregistered through the registry try_clone      *)
(* returns and polled, until the poll is destroyed.                        *)
(***************************************************************************)
NextRegistry ==
  \/ \E r \in Handles, fault \in {"ok", "EMFILE"} :
       /\ r = "p2" => "p2" \in LiveSelectors
       /\ RegistryTryClone(get_registry(r), fault)
  \/ \E r \in {registry_try_clone(get_registry("p2")).reg} :
       r \in LiveSelectors /\ RegisterFd(r, PipeRd, FirstToken, k_readable)
  \/ \E r \in {registry_try_clone(get_registry("p2")).reg} :
       r \in LiveSelectors /\ DeregisterFd(r, PipeRd)
  \/ "p2" \in LiveSelectors /\ PollBegin("p2", <<Ms(0, 0)>>)
  \/ PollReturn
  \/ EpollWaitRescan
  \/ PipeWrite
  \/ \E n \in 1..PipeCap : PipeRead(n)
  \/ SelectorDestroy("p2")

SpecRegistry == InitClone /\ [][NextRegistry]_vars

(***************************************************************************)
(* Properties of the selector.                                             *)
(***************************************************************************)
\* the running do_poll can return now (the guard of PollReturn), and the
\* result it then returns with
Returning ==
  /\ poll_pc = "waiting"
  /\ EpollWaitReturns(epoll_fd_(poll_arg.h), evs.capacity,
                      poll_arg.timeout_ms, poll_arg.elapsed)

Returned == do_poll(poll_arg.h, evs)

\* how many events of the batch carry token tok
TokenCount(e, tok) == Cardinality({i \in 1..e.len : ev_tok(Slot(e, i)) = tok})

\* C1: a selector never holds two registrations of one fd, and register_fd
\* on an fd that is registered fails with an error that is_already_exists
\* accepts, leaving the registration as it was.
C1_OneRegistrationPerFd ==
  /\ \A fd \in Fds : Cardinality({r \in regs : r.fd = fd}) <= 1
  /\ \A fd \in PipeFds, tok \in Tokens, i \in InterestInputs :
       Registered(fd) =>
         LET r == register_fd("p2", fd, tok, i, openfds)
         IN  is_already_exists(r.err) /\ r.regs = regs

\* a register_fd has just failed on an fd whose registration is still there
C1_Witness ==
  /\ is_already_exists(ret.err)
  /\ \E fd \in PipeFds : Registered(fd)

\* C2: a do_poll, whenever it returns, delivers no event of an fd that was
\* deregistered and has not been registered again, whether or not the fd
\* had an unpolled event when it was deregistered.
C2_NoEventAfterDeregister ==
  Returning =>
    \A fd \in PipeFds :
      dereg[fd] # "no" => fd \notin BatchFds(Returned.evs)

\* an fd was deregistered with an unpolled event pending, and a do_poll has
\* succeeded since without the fd being registered again
C2_Witness ==
  /\ poll_res.done
  /\ poll_res.err = "ok"
  /\ \E fd \in PipeFds : dereg[fd] = "polled" /\ ~Registered(fd)

\* the readiness an event reports is readiness the interest asked for
Consistent(e, interest) ==
  /\ ev_is_readable(e) => is_readable(interest)
  /\ ev_is_writable(e) => is_writable(interest)
  /\ ev_is_priority(e) => is_priority(interest)

\* the events of fd in batch e carry the token and the interest of the
\* last reregister_fd of fd
RearmedEvents(e, fd) ==
  \A i \in 1..e.len :
    Slot(e, i).fd = fd
      => /\ ev_tok(Slot(e, i)) = rereg[fd].tok
         /\ Consistent(Slot(e, i), rereg[fd].interest)

\* C3 as stated: after reregister_fd(fd, t, i) the next event of fd carries
\* t and readiness consistent with i, and a writable fd that went from
\* WRITABLE to READABLE yields no event while no data is readable on it.
C3_AsStated ==
  Returning =>
    LET e == Returned.evs
    IN  \A fd \in PipeFds :
          rereg[fd].state = "pending"
            => /\ RearmedEvents(e, fd)
               /\ (/\ rereg[fd].from_w
                   /\ rereg[fd].interest = k_readable
                   /\ "EPOLLIN" \notin FilePoll(fd))
                    => fd \notin BatchFds(e)

\* C3: after reregister_fd(fd, t, i) the next event of fd carries t and
\* readiness consistent with i, and a writable fd that went from WRITABLE to
\* READABLE yields no event while no data is readable on it and its file
\* reports neither error nor hang-up.
C3_ReregisterReplaces ==
  Returning =>
    LET e == Returned.evs
    IN  \A fd \in PipeFds :
          rereg[fd].state = "pending"
            => /\ RearmedEvents(e, fd)
               /\ (/\ rereg[fd].from_w
                   /\ rereg[fd].interest = k_readable
                   /\ FilePoll(fd) \cap {"EPOLLIN", "EPOLLERR", "EPOLLHUP"} = {})
                    => fd \notin BatchFds(e)

\* the first event after a reregister_fd that changed the token is in the
\* batch, with the new token
C3_Witness ==
  /\ poll_res.done
  /\ \E fd \in PipeFds :
       /\ rereg[fd].state = "delivered"
       /\ rereg[fd].tok # FirstToken
       /\ \E i \in 1..evs.len :
            Slot(evs, i).fd = fd /\ ev_tok(Slot(evs, i)) = rereg[fd].tok

\* C4: when do_poll has returned, the batch length is that call's alone:
\* the count select returned, within 0..capacity, after a success, and zero
\* after a failure.
C4_BatchLengthOfThisCall ==
  poll_res.done =>
    IF poll_res.err = "ok"
    THEN evs.len = poll_res.n /\ 0 <= poll_res.n /\ poll_res.n <= evs.capacity
    ELSE evs.len = 0

\* a do_poll that found events in the batch has failed and left it empty
C4_Witness ==
  /\ poll_res.done
  /\ poll_res.err # "ok"
  /\ poll_res.before > 0
  /\ evs.len = 0

(***************************************************************************)
(* Properties of the waker.                                                *)
(***************************************************************************)
\* the readable events of the batch that carry the waker's token
WakerEvents(e) ==
  {i \in 1..e.len :
     ev_tok(Slot(e, i)) = WakerToken /\ ev_is_readable(Slot(e, i))}

\* a do_poll on the live handle with room for an event can return now
Polling == Returning /\ poll_arg.h = "p2" /\ evs.capacity >= 1

\* the batch is full and the waker is still on the ready list
WakerLeftQueued(r) ==
  r.evs.len = r.evs.capacity /\ InSeq(r.rdllist, EventFd)

C8_AsStated ==
  (Polling /\ drained = "no" /\ (nwake >= 1 \/ reported.yes)
     /\ Returned.evs.len < evs.capacity)
    => Cardinality(WakerEvents(Returned.evs)) = 1

\* C8: wake() calls with no drain() yield one waker event in the first poll
\* round with room for it, and no waker event in the rounds after the one
\* that reported it, until wake() is called again.
C8_OneEventPerEdge ==
  /\ (Polling /\ drained = "no" /\ nwake >= 1
        /\ Returned.evs.len < evs.capacity)
       => Cardinality(WakerEvents(Returned.evs)) = 1
  /\ (Returning /\ reported.yes)
       => TokenCount(Returned.evs, WakerToken) = 0

\* the waker was reported, nothing drained it, and a later do_poll has
\* succeeded with no waker event
C8_Witness ==
  /\ poll_res.done
  /\ poll_res.err = "ok"
  /\ reported.yes
  /\ drained = "no"
  /\ ev_count > 0
  /\ TokenCount(evs, WakerToken) = 0

\* C9: once drain() has run and no wake() has followed it, a do_poll
\* reports no event with the waker's token; so after wake(), a do_poll that
\* reports the waker and one drain(), the next do_poll reports none.
C9_QuietAfterDrain ==
  (Returning /\ drained # "no")
    => TokenCount(Returned.evs, WakerToken) = 0

\* wake(), a do_poll that reported the waker, drain(), and then a do_poll
\* that succeeded with no waker event
C9_Witness ==
  /\ poll_res.done
  /\ poll_res.err = "ok"
  /\ reported.yes
  /\ drained = "polled"
  /\ TokenCount(evs, WakerToken) = 0

\* C10: wake() returns success when its write succeeds and when its write
\* fails with a would-block error, and the eventfd is readable afterwards
\* in both cases; any other error of the write is returned as it is.
C10_WakeSaturationIsSuccess ==
  waker_made =>
    \A f \in {"ok"} \cup WriteFaults :
      LET r == wake(f)
      IN  IF r.sys = "ok" \/ is_would_block(r.sys)
          THEN r.err = "ok" /\ r.count > 0
          ELSE r.err = r.sys

\* a wake() on the saturated counter has returned success, and the eventfd
\* is readable
C10_Witness ==
  /\ is_would_block(ret.sys)
  /\ ret.err = "ok"
  /\ "EPOLLIN" \in FilePoll(EventFd)

(***************************************************************************)
(* Properties of select's wait.                                            *)
(***************************************************************************)
\* C11: select, and so do_poll, never returns an error that is_interrupted
\* accepts: a wait that a signal interrupted is entered again, and the loop
\* ends with an event count or with another error, which do_poll returns.
C11_InterruptIsRetried ==
  /\ poll_res.done => ~is_interrupted(poll_res.err)
  /\ Returning => ~is_interrupted(Returned.err)
  /\ poll_pc = "interrupted" => select_loop_again(-1, "EINTR")

\* a do_poll whose wait was interrupted has returned an event
C11_Witness ==
  /\ poll_res.done
  /\ poll_res.eintr >= 1
  /\ poll_res.err = "ok"
  /\ poll_res.n >= 1

\* the running do_poll is on the live handle with a batch that holds an
\* event, and was given a timeout of 0 or more milliseconds
TimedPoll ==
  /\ poll_pc = "waiting"
  /\ poll_arg.h = "p2"
  /\ evs.capacity >= 1
  /\ Len(poll_arg.timeout) = 1
  /\ ~ms_negative(poll_arg.timeout[1])

\* C12: do_poll with a present timeout t >= 0 and no ready registration
\* terminates with success and zero events: while nothing is ready its
\* wait either can end now or ends when the timeout has run out, and it
\* ends with success and an empty batch; with t = 0 it can end at once.
C12_AsStated ==
  (TimedPoll /\ EpollWait(epoll_fd_(poll_arg.h), evs.capacity).n = 0) =>
     /\ Returning \/ (poll_arg.timeout_ms > 0 /\ ~poll_arg.elapsed)
     /\ Returning => /\ Returned.err = "ok"
                     /\ Returned.n = 0
                     /\ Returned.evs.len = 0
     /\ ms_zero(poll_arg.timeout[1]) => Returning

\* C13: for every present timeout the value select passes to epoll_wait is
\* non-negative, a negative count being passed as 0, and a negative value
\* (wait indefinitely) is passed only when the timeout is absent.
C13_AsStated ==
  poll_pc \in {"waiting", "interrupted"} =>
     /\ Len(poll_arg.timeout) = 1 => poll_arg.timeout_ms >= 0
     /\ (Len(poll_arg.timeout) = 1 /\ ms_negative(poll_arg.timeout[1])) =>
           poll_arg.timeout_ms = 0
     /\ poll_arg.timeout_ms < 0 => poll_arg.timeout = <<>>

\* C14: select with a capacity of zero returns success and a count of zero
\* at once, so do_poll on a batch of capacity 0 succeeds with size 0.
C14_AsStated ==
  (poll_pc = "waiting" /\ poll_arg.h = "p2" /\ evs.capacity = 0) =>
     /\ Returning
     /\ Returned.err = "ok"
     /\ Returned.n = 0
     /\ Returned.evs.len = 0

(***************************************************************************)
(* Properties of edge-triggered delivery.                                  *)
(***************************************************************************)
\* the events of batch e that report the read end of the pipe readable
ReadableEvents(e) ==
  {i \in 1..e.len : Slot(e, i).fd = PipeRd /\ ev_is_readable(Slot(e, i))}

\* C15: once the caller has read all the bytes of a source registered
\* READABLE, a do_poll delivers no readable event for it until the peer
\* writes again: while the pipe is empty, and so after the caller has read
\* it empty, no do_poll returns a readable event of the read end.
C15_QuietAfterReadAll ==
  /\ poll_res.src = "read" => pipe_bytes = 0
  /\ (Returning /\ pipe_bytes = 0) => ReadableEvents(Returned.evs) = {}

\* the read end was reported readable, the caller read the pipe empty, and
\* the next do_poll has succeeded with no event while the read end is
\* still registered READABLE and the peer has not written
C15_Witness ==
  /\ poll_res.done
  /\ poll_res.src = "read"
  /\ poll_res.err = "ok"
  /\ poll_res.n = 0
  /\ Registered(PipeRd)
  /\ "EPOLLIN" \in RegOf(PipeRd).events
  /\ PipeWr \in openfds

(***************************************************************************)
(* Properties of registrations made on other threads.                      *)
(***************************************************************************)
\* fd was registered or reregistered with success, no do_poll has reported
\* it since, and its file is ready for the interest of that call
FreshAndReady(fd) ==
  /\ rereg[fd].state = "pending"
  /\ FilePoll(fd) \cap interest_to_epoll(rereg[fd].interest) # {}

\* the events of batch e for fd that carry the token of that call
FreshEvents(e, fd) ==
  {i \in 1..e.len : Slot(e, i).fd = fd /\ ev_tok(Slot(e, i)) = rereg[fd].tok}

\* the running do_poll is on a selector of the shared epoll instance
SharedPoll ==
  Returning /\ poll_arg.h \in SharedSelectors /\ evs.capacity >= 1

C17_AsStated ==
  /\ \A fd \in GuardFds : fdtable[fd].closes <= 1
  /\ Alive = {} =>
       \A fd \in GuardFds :
          fdtable[fd].owner \in {"guard", "again"} => fdtable[fd].closes = 1

\* C18: move-construct and move-assign transfer ownership: afterwards the
\* source holds -1 and the destination the source's former descriptor,
\* which the move has not closed; move-assign closes the descriptor the
\* destination held before; self-move-assignment changes nothing and
\* closes nothing.
C18_MoveTransfersOwnership ==
  \A x \in Guards, other \in Alive :
     LET moved == guards[other].fd_
         r == IF guards[x].alive
              THEN move_assign(guards, fdtable, x, other)
              ELSE fd_guard_move(guards, fdtable, x, other)
         was == IF guards[x].alive THEN guards[x].fd_ ELSE NoFd
     IN  IF x = other
         THEN r.g = guards /\ r.t = fdtable
         ELSE /\ raw_fd(r.g, other) = -1
              /\ raw_fd(r.g, x) = moved
              /\ r.g[x].alive
              /\ \A y \in Guards \ {x, other} : r.g[y] = guards[y]
              /\ \A fd \in GuardFds :
                    IF fd = was
                    THEN /\ ~r.t[fd].open
                         /\ r.t[fd].closes = fdtable[fd].closes + 1
                    ELSE r.t[fd] = fdtable[fd]
              /\ moved \in GuardFds => moved # was

\* g2 = std::move(g1) has run with both guards holding a descriptor: g1
\* holds -1, g2 holds g1's descriptor, which is open, and the descriptor
\* g2 held is closed
C18_Witness ==
  /\ gop.op = "move_assign"
  /\ gop.g # gop.from
  /\ gop.was \in GuardFds
  /\ gop.arg \in GuardFds
  /\ raw_fd(guards, gop.from) = -1
  /\ raw_fd(guards, gop.g) = gop.arg
  /\ fdtable[gop.arg].open
  /\ ~fdtable[gop.was].open

\* C19: release() returns the raw descriptor the guard holds and empties
\* the guard without closing anything, and a guard constructed from the
\* released value is the original over again: the same raw value, the same
\* operator bool, the descriptor as open as it was, and one close() of it
\* when the new guard is destroyed, none when the old one is.
C19_ReleaseRoundTrip ==
  \A x \in Alive :
     LET fd == guards[x].fd_
         r == release(guards, fdtable, x)
     IN  /\ r.out = fd
         /\ raw_fd(r.g, x) = -1
         /\ \A d \in GuardFds : /\ r.t[d].open = fdtable[d].open
                                /\ r.t[d].closes = fdtable[d].closes
         /\ \A y \in Guards \ Alive :
               LET c == fd_guard(r.g, r.t, y, r.out)
                   d == fd_guard_dtor(c.g, c.t, y)
                   e == fd_guard_dtor(d.g, d.t, x)
               IN  /\ raw_fd(c.g, y) = fd
                   /\ operator_bool(c.g, y) = operator_bool(guards, x)
                   /\ \A k \in GuardFds :
                         /\ c.t[k].open = fdtable[k].open
                         /\ c.t[k].closes = fdtable[k].closes
                         /\ d.t[k].closes =
                              fdtable[k].closes + (IF k = fd THEN 1 ELSE 0)
                         /\ k = fd => ~d.t[k].open
                   /\ e.t = d.t

\* a descriptor was adopted, handed back by release(), adopted again by a
\* guard made from the released value, and closed, once, by that guard's
\* destructor
C19_Witness ==
  \E fd \in GuardFds :
     /\ fdtable[fd].owner = "again"
     /\ fdtable[fd].closes = 1
     /\ ~fdtable[fd].open
     /\ gop.op = "dtor"
     /\ gop.was = fd

\* C20: in every reachable state the raw value of a guard is >= 0 or
\* exactly -1: a guard constructed from, or reset to, a negative number
\* holds -1.
C20_AsStated ==
  \A x \in Alive : raw_fd(guards, x) >= 0 \/ raw_fd(guards, x) = -1

\* C37: a guard that is not empty refers to an open descriptor: after
\* reset(fd) with fd >= 0 open when the call is made, the guard holds fd
\* and fd is open, also when fd is the descriptor the guard held already.
C37_AsStated ==
  /\ \A x \in Alive :
        operator_bool(guards, x) => fdtable[raw_fd(guards, x)].open
  /\ (gop.op = "reset" /\ gop.arg >= 0) =>
        /\ raw_fd(guards, gop.g) = gop.arg
        /\ fdtable[gop.arg].open

(***************************************************************************)
(* Properties of the registration set.                                     *)
(***************************************************************************)
\* error::code() == ENOENT
IsNotFound(code) == code = "ENOENT"

\* C21: reregister_fd and deregister_fd on an open fd that is not
\* registered on the selector, whether it never was or was deregistered,
\* fail with the not-found error (ENOENT) and register nothing.
C21_UnregisteredIsNotFound ==
  \A fd \in PipeFds :
     (fd \in openfds /\ ~Registered(fd)) =>
        /\ \A tok \in Tokens, i \in InterestInputs :
              LET r == reregister_fd("p2", fd, tok, i)
              IN  IsNotFound(r.err) /\ r.regs = regs
        /\ LET d == deregister_fd("p2", fd)
           IN  IsNotFound(d.err) /\ d.regs = regs

\* the last registry call failed with ENOENT: it was made on the write end,
\* which had been deregistered and not registered again
C21_Witness ==
  /\ IsNotFound(ret.err)
  /\ openfds = PipeFds
  /\ Registered(PipeRd)
  /\ ~Registered(PipeWr)
  /\ dereg[PipeWr] # "no"

(***************************************************************************)
(* Properties of interests and of the masks they are translated to.        *)
(***************************************************************************)
\* flag word m is the mask of interest i by the table of the selector
MaskTable(m, i) ==
  /\ "EPOLLET" \in m
  /\ "EPOLLIN" \in m <=> is_readable(i)
  /\ "EPOLLRDHUP" \in m <=> is_readable(i)
  /\ "EPOLLOUT" \in m <=> is_writable(i)
  /\ "EPOLLPRI" \in m <=> is_priority(i)
  /\ m \subseteq {"EPOLLET", "EPOLLIN", "EPOLLRDHUP", "EPOLLOUT", "EPOLLPRI"}

\* the mask a registry call asked for: what the kernel keeps, less the two
\* flags it reports for every registration
AskedMask(item) == item.events \ {"EPOLLERR", "EPOLLHUP"}

\* C22: for each of the 8 interests the mask register_fd and reregister_fd
\* give the kernel is exactly EPOLLET, plus EPOLLIN and EPOLLRDHUP iff the
\* interest has READABLE, plus EPOLLOUT iff WRITABLE, plus EPOLLPRI iff
\* PRIORITY.
C22_MaskOfInterest ==
  /\ Cardinality(AllInterests) = 8
  /\ \A i \in AllInterests : MaskTable(interest_to_epoll(i), i)
  /\ \A fd \in PipeFds :
       Registered(fd) => MaskTable(AskedMask(RegOf(fd)), rereg[fd].interest)
  /\ \A fd \in PipeFds, i \in AllInterests :
       LET r == IF Registered(fd)
                THEN reregister_fd("p2", fd, FirstToken, i)
                ELSE register_fd("p2", fd, FirstToken, i, openfds)
       IN  r.err = "ok" =>
             \A item \in r.regs : item.fd = fd => MaskTable(AskedMask(item), i)

\* the read end is registered with all three interests and an event of
\* that registration has been delivered
C22_Witness ==
  /\ Registered(PipeRd)
  /\ rereg[PipeRd].interest = AnyInterest
  /\ rereg[PipeRd].state = "delivered"

\* C25: register_fd with the empty interest succeeds, and the events of
\* that registration report error or hang-up only: none has readable,
\* writable or priority set, whatever data arrives.
C25_EmptyInterestIsQuiet ==
  /\ \A fd \in PipeFds :
       (fd \in openfds /\ ~Registered(fd)) =>
          LET r == register_fd("p2", fd, FirstToken, interest_empty, openfds)
          IN  /\ r.err = "ok"
              /\ \E item \in r.regs : item.fd = fd
  /\ Returning =>
       \A i \in 1..Returned.evs.len :
         LET e == Slot(Returned.evs, i)
         IN  is_empty(rereg[e.fd].interest) =>
               /\ ~ev_is_readable(e)
               /\ ~ev_is_writable(e)
               /\ ~ev_is_priority(e)
               /\ e.events # {}
               /\ e.events \subseteq {"EPOLLERR", "EPOLLHUP"}

\* the read end is registered with the empty interest, data has arrived in
\* the pipe, and a do_poll has delivered the hang-up of the write end alone
C25_Witness ==
  /\ poll_res.done
  /\ Registered(PipeRd)
  /\ is_empty(rereg[PipeRd].interest)
  /\ rereg[PipeRd].via = "p2"
  /\ rereg[PipeRd].state = "delivered"
  /\ pipe_bytes > 0
  /\ evs.len = 1
  /\ Slot(evs, 1).events = {"EPOLLHUP"}

\* C27: for all interests a and b: a | a == a, a.remove(a) is empty,
\* a | b == b | a, and a.remove(b) has exactly the bits of a that b has not.
C27_InterestAlgebra ==
  /\ \A a, b \in AllInterests :
       /\ interest_or(a, a) = a
       /\ is_empty(interest_remove(a, a))
       /\ interest_or(a, b) = interest_or(b, a)
       /\ \A k \in InterestBits :
            /\ Bit(interest_remove(a, b), k) <=> (Bit(a, k) /\ ~Bit(b, k))
            /\ Bit(interest_or(a, b), k) <=> (Bit(a, k) \/ Bit(b, k))
  /\ \A fd \in PipeFds : rereg[fd].interest \in AllInterests

\* the read end is registered with what remove left of all three interests
\* when WRITABLE was taken out, and an event of it has been delivered
C27_Witness ==
  /\ Registered(PipeRd)
  /\ rereg[PipeRd].interest = interest_remove(AnyInterest, k_writable)
  /\ is_readable(rereg[PipeRd].interest)
  /\ is_priority(rereg[PipeRd].interest)
  /\ ~is_writable(rereg[PipeRd].interest)
  /\ rereg[PipeRd].state = "delivered"

(***************************************************************************)
(* Properties of calls that fail.                                          *)
(***************************************************************************)
\* C28: a register_fd, reregister_fd or deregister_fd that fails leaves the
\* registrations as they were: after a rejected duplicate register_fd the
\* events of the fd still carry the token and the interest of the call that
\* succeeded, and a failed reregister_fd or deregister_fd on an unregistered
\* fd creates no registration.
C28_FailureChangesNothing ==
  /\ \A h \in Handles, fd \in PipeFds :
       /\ \A tok \in Tokens, i \in InterestInputs :
            LET a == register_fd(h, fd, tok, i, openfds)
                m == reregister_fd(h, fd, tok, i)
            IN  /\ a.err # "ok" => (a.regs = regs /\ a.rdllist = rdllist)
                /\ m.err # "ok" => (m.regs = regs /\ m.rdllist = rdllist)
       /\ LET d == deregister_fd(h, fd)
          IN  d.err # "ok" => (d.regs = regs /\ d.rdllist = rdllist)
  /\ \A fd \in PipeFds :
       IF rereg[fd].state = "none"
       THEN ~Registered(fd)
       ELSE /\ Registered(fd)
            /\ token(RegOf(fd).data) = rereg[fd].tok
            /\ AskedMask(RegOf(fd)) = interest_to_epoll(rereg[fd].interest)
  /\ Returning => \A fd \in PipeFds : RearmedEvents(Returned.evs, fd)

\* the last call was a register_fd of the registered read end, rejected as
\* a duplicate, with a token other than the one the registration has, and
\* a do_poll is returning the event of the read end with the token it had
C28_Witness ==
  /\ Returning
  /\ ret.err = "EEXIST"
  /\ openfds = PipeFds
  /\ ~Registered(PipeWr)
  /\ dereg[PipeWr] = "no"
  /\ rereg[PipeRd].tok # FirstToken
  /\ FreshEvents(Returned.evs, PipeRd) # {}

(***************************************************************************)
(* Properties of tokens.                                                   *)
(***************************************************************************)
\* C23: every event a do_poll delivers for a registered fd carries exactly
\* the token of the latest successful register_fd or reregister_fd of that
\* fd, for every 64-bit value, 0 and the maximum included, and
\* token(v).value() == v.
C23_TokenVerbatim ==
  /\ \A v \in TokenInputs : value(token(v)) = v
  /\ \A fd \in PipeFds :
       Registered(fd) =>
         /\ token(RegOf(fd).data) = rereg[fd].tok
         /\ rereg[fd].tok \in {token(v) : v \in TokenInputs}
  /\ Returning =>
       \A i \in 1..Returned.evs.len :
         LET e == Slot(Returned.evs, i)
         IN  Registered(e.fd) /\ ev_tok(e) = rereg[e.fd].tok

\* a do_poll has delivered an event whose token is the maximum value, as the
\* latest call for the read end gave it
C23_Witness ==
  /\ poll_res.done
  /\ evs.len = 1
  /\ value(ev_tok(Slot(evs, 1))) = SizeMax
  /\ rereg[PipeRd].state = "delivered"
  /\ rereg[PipeRd].tok = token(SizeMax)

(***************************************************************************)
(* Properties of the event view.                                           *)
(***************************************************************************)
\* the six predicates of event e are those of the table for its flag word
PredicateTable(e) ==
  LET w == e.events
  IN  /\ ev_is_readable(e) <=> "EPOLLIN" \in w
      /\ ev_is_writable(e) <=> "EPOLLOUT" \in w
      /\ ev_is_error(e) <=> "EPOLLERR" \in w
      /\ ev_is_read_closed(e) <=> ("EPOLLHUP" \in w \/ "EPOLLRDHUP" \in w)
      /\ ev_is_write_closed(e) <=> ("EPOLLHUP" \in w \/ "EPOLLERR" \in w)
      /\ ev_is_priority(e) <=> "EPOLLPRI" \in w

\* C24: for every flag word the predicates of the event view are: readable
\* = EPOLLIN, writable = EPOLLOUT, error = EPOLLERR, read-closed = EPOLLHUP
\* or EPOLLRDHUP, write-closed = EPOLLHUP or EPOLLERR, priority = EPOLLPRI;
\* so an event with only the error bit reports is_write_closed().
C24_PredicatesFollowTable ==
  /\ \A w \in SUBSET EpollFlags :
       LET e == [ZeroEvent EXCEPT !.events = w]
       IN  /\ PredicateTable(e)
           /\ w = {"EPOLLERR"} => ev_is_write_closed(e)
  /\ \A i \in 1..evs.len : PredicateTable(Slot(evs, i))

\* a do_poll has delivered an event with only the error bit set, and the
\* view reports it write-closed and not read-closed
C24_Witness ==
  /\ poll_res.done
  /\ \E i \in 1..evs.len :
       /\ Slot(evs, i).events = {"EPOLLERR"}
       /\ ev_is_error(Slot(evs, i))
       /\ ev_is_write_closed(Slot(evs, i))
       /\ ~ev_is_read_closed(Slot(evs, i))

(***************************************************************************)
(* Properties of cloned selectors.                                         *)
(***************************************************************************)
\* C26: a selector made by try_clone names the epoll instance of the
\* original: every call through either live selector has the result and
\* the effect it has through the other, a registration made or removed
\* through one is seen by select on the other, and destroying either leaves
\* the other usable with the registrations intact.
C26_CloneSharesInstance ==
  /\ \A h1, h2 \in LiveSelectors :
       /\ do_poll(h1, evs) = do_poll(h2, evs)
       /\ deregister_fd(h1, PipeRd) = deregister_fd(h2, PipeRd)
       /\ \A tok \in Tokens :
            /\ register_fd(h1, PipeRd, tok, k_readable, openfds)
                 = register_fd(h2, PipeRd, tok, k_readable, openfds)
            /\ reregister_fd(h1, PipeRd, tok, k_readable)
                 = reregister_fd(h2, PipeRd, tok, k_readable)
  /\ \A fd \in PipeFds :
       /\ (LiveSelectors # {} /\ rereg[fd].state # "none") =>
             Registered(fd) /\ token(RegOf(fd).data) = rereg[fd].tok
       /\ (Returning /\ FreshAndReady(fd)) =>
             \/ FreshEvents(Returned.evs, fd) # {}
             \/ /\ Returned.evs.len = evs.capacity
                /\ InSeq(Returned.rdllist, fd)
       /\ (Returning /\ dereg[fd] # "no") => fd \notin BatchFds(Returned.evs)
  /\ \A h \in LiveSelectors :
       LiveSelectors # {h} =>
         LET r == selector_dtor(h)
         IN  /\ r.regs = regs
             /\ r.rdllist = rdllist
             /\ \A o \in LiveSelectors \ {h} : epoll_fd_(o) \in r.open

\* the original selector has been destroyed, and a do_poll through the
\* clone is returning the event of a registration made through the original
C26_Witness ==
  /\ Returning
  /\ poll_arg.h = "p2_clone"
  /\ LiveSelectors = {"p2_clone"}
  /\ rereg[PipeRd].via = "p2"
  /\ FreshAndReady(PipeRd)
  /\ FreshEvents(Returned.evs, PipeRd) # {}

(***************************************************************************)
(* Properties of calls that race with a do_poll.                           *)
(***************************************************************************)
\* C29 as stated: when deregister_fd(fd) completes on one thread while
\* another is inside do_poll on the selector, no do_poll that returns after
\* the deregister completed hands the caller an event of fd.
C29_AsStated ==
  poll_pc = "copied" =>
    \A fd \in PipeFds :
       dereg[fd] # "no" =>
         fd \notin BatchFds(do_poll_return(evs, poll_res.n, poll_res.err).evs)

(***************************************************************************)
(* Properties of wake() and drain() on different threads.                  *)
(***************************************************************************)
\* a wake() that completed after a drain(), or after a do_poll that reported
\* the waker with no drain() since, has had no event of the waker delivered
WakeOwed == reported.wk \in {"drain", "report"}

\* a do_poll has delivered the waker's event since that wake()
WakeAnswered == reported.wk \in {"drain_seen", "report_seen"}

\* C30 as stated: every wake() that completes after a drain() has returned
\* causes a later do_poll to deliver a readable event with the waker's
\* token, also when the poller had been given a waker event for earlier
\* wakes and had not drained before that wake().
C30_AsStated == WakeOwed ~> WakeAnswered

\* C30: every wake() that completes after a drain() has returned, also one
\* that follows a waker event the poller has not drained, leaves the waker
\* queued with its counter above zero; unless a drain() runs after that
\* wake(), every do_poll that returns delivers a readable event with the
\* waker's token or returns a full batch with the waker still queued, and
\* under a poll loop some do_poll delivers it.
C30_WakeAfterDrainIsDelivered ==
  /\ []((WakeOwed /\ nwake >= 1) => Unpolled(EventFd))
  /\ []((Polling /\ WakeOwed /\ nwake >= 1) =>
          (WakerEvents(Returned.evs) # {} \/ WakerLeftQueued(Returned)))
  /\ (WakeOwed ~> (WakeAnswered \/ drained # "no"))

\* a wake() came after the poller had been given the waker's event and had
\* not drained, and a do_poll has delivered the waker's event for it
C30_Witness ==
  /\ poll_res.done
  /\ reported.yes
  /\ reported.wk = "report_seen"
  /\ drained = "no"
  /\ WakerEvents(evs) # {}

(***************************************************************************)
(* Properties of wake() calls counted over several poll rounds.            *)
(***************************************************************************)
\* the last wake() came after a do_poll had reported the waker for an
\* earlier wake() of the same run of wakes, and no drain() came in between
WokenAgain == reported.wk = "report" /\ drained = "no"

\* C31 as stated: the wake() calls between two consecutive drains are
\* answered by at most one waker event in total, over all do_poll rounds:
\* once a do_poll has reported the waker, no later do_poll reports it
\* before the next drain(), also when wake() is called again.
C31_AsStated ==
  (Returning /\ WokenAgain) => TokenCount(Returned.evs, WakerToken) = 0

\* C31: wake() calls coalesce up to the do_poll that reports them: a batch
\* never holds more than one waker event, a do_poll that reports the waker
\* answers at least one wake() made since the last report and the last
\* drain, and a wake() made after a report is answered by one more event,
\* in the first do_poll with room for it.
C31_OneEventPerReportedRun ==
  /\ Returning => TokenCount(Returned.evs, WakerToken) <= 1
  /\ (Returning /\ TokenCount(Returned.evs, WakerToken) >= 1)
       => (nwake >= 1 /\ drained = "no" /\ ~reported.yes)
  /\ (Polling /\ WokenAgain /\ Returned.evs.len < evs.capacity)
       => Cardinality(WakerEvents(Returned.evs)) = 1

\* between two drains the waker was reported, woken again and reported a
\* second time, by one event of the second batch
C31_Witness ==
  /\ poll_res.done
  /\ poll_res.err = "ok"
  /\ reported.yes
  /\ reported.wakes >= 1
  /\ reported.wk = "report_seen"
  /\ drained = "no"
  /\ TokenCount(evs, WakerToken) = 1

(***************************************************************************)
(* Properties of edge-triggered delivery.                                  *)
(***************************************************************************)
\* C32: a readiness condition that a do_poll has reported is not reported
\* again while nothing happens on the source and the caller neither drains
\* nor reregisters it: once a do_poll has delivered an event of a pipe end,
\* no later do_poll delivers one, so a write end that stays writable is
\* reported writable once.
C32_ReportedOnce ==
  \A fd \in PipeFds :
    (Returning /\ rereg[fd].state = "delivered")
      => (fd \notin BatchFds(Returned.evs) /\ ~InSeq(rdllist, fd))

\* the write end is registered writable, is still writable, was reported
\* by a do_poll, and a later do_poll has returned an empty batch
C32_Witness ==
  /\ poll_res.done
  /\ poll_res.err = "ok"
  /\ evs.len = 0
  /\ rereg[PipeWr].state = "delivered"
  /\ is_writable(rereg[PipeWr].interest)
  /\ "EPOLLOUT" \in FilePoll(PipeWr)

(***************************************************************************)
(* Properties of sources that are ready when they are registered.          *)
(***************************************************************************)
\* the read end was registered READABLE when data was buffered or the write
\* end was closed, no do_poll has reported it since, and the running
\* do_poll, on a batch that can hold an event, can return now
ReadyWhenRegistered ==
  /\ Polling
  /\ rereg[PipeRd].state = "pending"
  /\ is_readable(rereg[PipeRd].interest)
  /\ FilePoll(PipeRd) \cap {"EPOLLIN", "EPOLLHUP"} # {}

\* C33 as stated: if data was written or the peer closed before
\* register_fd(fd, t, READABLE), the first do_poll after the registration
\* reports an event for t.
C33_AsStated ==
  ReadyWhenRegistered => FreshEvents(Returned.evs, PipeRd) # {}

\* C33: readiness that holds when an fd is registered is queued by the
\* registration: the first do_poll after it reports an event for t, or
\* returns a batch filled by events that were queued ahead of it and leaves
\* the fd on the ready list for the next do_poll.
C33_ReadyAtRegistrationIsQueued ==
  /\ (rereg[PipeRd].state = "pending"
        /\ FilePoll(PipeRd) \cap {"EPOLLIN", "EPOLLHUP"} # {})
       => Unpolled(PipeRd)
  /\ ReadyWhenRegistered =>
       \/ FreshEvents(Returned.evs, PipeRd) # {}
       \/ /\ Returned.evs.len = evs.capacity
          /\ InSeq(Returned.rdllist, PipeRd)
          /\ \A i \in 1..Returned.evs.len : Slot(Returned.evs, i).fd # PipeRd

\* the write end was closed before the read end was registered, and the
\* first do_poll after the registration has reported the read end
\* read-closed with the token of the registration
C33_Witness ==
  /\ poll_res.done
  /\ PipeWr \notin openfds
  /\ rereg[PipeRd].state = "delivered"
  /\ \E i \in 1..evs.len :
        /\ Slot(evs, i).fd = PipeRd
        /\ ev_tok(Slot(evs, i)) = rereg[PipeRd].tok
        /\ ev_is_read_closed(Slot(evs, i))

(***************************************************************************)
(* Properties of one batch.                                                *)
(***************************************************************************)
\* the registered fds with an event that no do_poll has taken
ReadyFds == {fd \in Fds : Unpolled(fd)}

\* C34: in the batch of one do_poll every registered fd appears in at most
\* one event, which carries everything the fd has to report: k distinct
\* ready fds and a capacity of at least k give exactly k events, of k
\* distinct registrations, and an fd that is readable and writable is
\* reported by one event with both flags.
C34_OneEventPerFd ==
  Returning =>
    LET b == Returned.evs
    IN  /\ \A i, j \in 1..b.len :
             (Slot(b, i).fd = Slot(b, j).fd
                \/ ev_tok(Slot(b, i)) = ev_tok(Slot(b, j))) => i = j
        /\ \A i \in 1..b.len :
             LET e == Slot(b, i)
             IN  /\ Registered(e.fd)
                 /\ e.data = RegOf(e.fd).data
                 /\ e.events = FilePoll(e.fd) \cap RegOf(e.fd).events
        /\ Cardinality(ReadyFds) <= evs.capacity =>
             /\ Returned.n = Cardinality(ReadyFds)
             /\ b.len = Cardinality(ReadyFds)
             /\ BatchFds(b) = ReadyFds

\* one do_poll has delivered two events for two ready fds, one of them the
\* event of the eventfd with the readable and the writable flag
C34_Witness ==
  /\ poll_res.done
  /\ poll_res.n = 2
  /\ evs.len = 2
  /\ BatchFds(evs) = {PipeRd, EventFd}
  /\ \E i \in 1..evs.len :
        /\ Slot(evs, i).fd = EventFd
        /\ ev_is_readable(Slot(evs, i))
        /\ ev_is_writable(Slot(evs, i))
  /\ TokenCount(evs, WakerToken) = 1

(***************************************************************************)
(* Properties of batches that overflow.                                    *)
(***************************************************************************)
\* a do_poll has returned a full batch without fd, and fd still has an
\* event that no do_poll has taken
LeftOver(fd) ==
  /\ poll_res.done
  /\ poll_res.n = evs.capacity
  /\ fd \notin BatchFds(evs)
  /\ Unpolled(fd)

\* a do_poll has returned with an event of fd
Delivered(fd) == poll_res.done /\ fd \in BatchFds(evs)

\* C35: when more registered fds are ready than the batch holds, do_poll
\* delivers exactly capacity events and leaves the others on the ready
\* list, and under a poll loop a later do_poll delivers each of them with
\* no new activity, unless the caller takes its readiness away first.
C35_OverflowIsKept ==
  /\ []((Returning /\ Cardinality(ReadyFds) > evs.capacity) =>
          /\ Returned.n = evs.capacity
          /\ Returned.evs.len = evs.capacity
          /\ BatchFds(Returned.evs) \subseteq ReadyFds
          /\ \A fd \in ReadyFds \ BatchFds(Returned.evs) :
                InSeq(Returned.rdllist, fd))
  /\ \A fd \in {PipeRd, EventFd} :
        LeftOver(fd) ~>
          (Delivered(fd) \/ (Registered(fd) /\
                               FilePoll(fd) \cap RegOf(fd).events = {}))

\* two fds were ready for a batch of capacity one: the do_poll has
\* delivered one event, and the waker is still on the ready list
C35_Witness ==
  /\ LeftOver(EventFd)
  /\ evs.capacity = 1
  /\ evs.len = 1
  /\ BatchFds(evs) = {PipeRd}
  /\ InSeq(rdllist, EventFd)

(***************************************************************************)
(* Properties of select's wait under signals.                              *)
(***************************************************************************)
\* C36 as stated: a do_poll with a present finite timeout returns in the
\* end, however often signals interrupt its wait: a wait that select
\* entered with a positive number of milliseconds leads to the return of
\* do_poll.
C36_AsStated ==
  (poll_pc = "waiting" /\ Len(poll_arg.timeout) = 1 /\ poll_arg.timeout_ms > 0)
    ~> (poll_pc = "idle")

(***************************************************************************)
(* Properties of sources that are closed while registered.                 *)
(***************************************************************************)
\* C38: closing a registered descriptor, by destroying the source that owns
\* it or the last copy of the waker, leaves it unregistered: a closed
\* descriptor has no registration and no queued event, the registrations
\* are those made by a register_fd or waker::create with no deregister_fd,
\* close or destruction since, a do_poll delivers events of open registered
\* descriptors only, with what their present file reports, and a new
\* descriptor with the number of a closed one registers with success.
C38_CloseUnregisters ==
  /\ \A fd \in {PipeRd, PipeWr, EventFd} :
        fd \notin openfds => (~Registered(fd) /\ ~InSeq(rdllist, fd))
  /\ \A fd \in PipeFds : Registered(fd) <=> rereg[fd].state # "none"
  /\ Registered(EventFd) <=> waker_made
  /\ Returning =>
        \A i \in 1..Returned.evs.len :
           LET e == Slot(Returned.evs, i)
           IN  /\ e.fd \in openfds
               /\ Registered(e.fd)
               /\ e.events = FilePoll(e.fd) \cap RegOf(e.fd).events
  /\ \A fd \in PipeFds :
        (fd \in openfds /\ rereg[fd].state = "none") =>
           register_fd("p2", fd, FirstToken, k_readable, openfds).err = "ok"
  /\ ~waker_made =>
        register_fd("p2", EventFd, WakerToken, waker_interest,
                    openfds \cup {EventFd}).err = "ok"

\* a do_poll reported the waker, nothing drained it, and yet the eventfd of
\* the registered waker counts zero: the reported waker was destroyed, a
\* new one was created and registered under the same descriptor number,
\* and a later do_poll has succeeded without an event of the waker
C38_Witness ==
  /\ waker_made
  /\ Registered(EventFd)
  /\ reported.yes
  /\ drained = "no"
  /\ ev_count = 0
  /\ poll_res.done
  /\ poll_res.err = "ok"
  /\ EventFd \notin BatchFds(evs)

(***************************************************************************)
(* Properties of registry::try_clone.                                      *)
(***************************************************************************)
\* a step of registry::try_clone
TryCloneStep ==
  \E r \in Handles, fault \in {"ok", "EMFILE"} :
     RegistryTryClone(get_registry(r), fault)

\* C39: registry::try_clone changes nothing but its result: whether it
\* succeeds or fails, the open descriptors of the epoll instance and of the
\* sources, the registrations and the queued events are after it what they
\* were before, the duplicate having been closed again; the registry it
\* returns is a pointer to the selector of the poll it was cloned from, so
\* no descriptor but the poll's own ever names the instance, which goes
\* with the poll.
C39_TryCloneIsFrame ==
  /\ [][TryCloneStep =>
          /\ UNCHANGED <<regs, rdllist, openfds, epoll_open>>
          /\ UNCHANGED <<pipe_bytes, ev_count, waker_made, poll_vars,
                         ghost_vars, guards, fdtable>>
          /\ ret'.err = "ok" =>
                (gop'.op = "dtor" /\ gop'.was \notin epoll_open')
          /\ ret'.err # "ok" => gop' = gop]_vars
  /\ [](/\ registry_try_clone(get_registry("p2")).reg = get_registry("p2")
        /\ epoll_fd_(registry_try_clone(get_registry("p2")).reg) = EpollFd
        /\ epoll_open \subseteq {EpollFd}
        /\ epoll_open = {} => regs = {})

\* registry::try_clone has succeeded on a poll with a registration: the
\* duplicate was closed by its guard, the instance has the one descriptor
\* of the poll, and the registration is in place
C39_Witness ==
  /\ ret.err = "ok"
  /\ gop.op = "dtor"
  /\ gop.was = CloneFd
  /\ epoll_open = {EpollFd}
  /\ Registered(PipeRd)
  /\ InSeq(rdllist, PipeRd)

====
